---- MODULE Spec2Model ----
(***************************************************************************)
(* The offline-first synchronisation engine of KeepNotesClone              *)
(* (SyncService in services/syncService.ts, with the parts of AuthService  *)
(* and DatabaseService it drives), as a state machine.                     *)
(*                                                                         *)
(* JavaScript runs one callback at a time; an async function gives up the  *)
(* thread only at an await of real I/O (AsyncStorage, the remote store).   *)
(* Each action below is one such segment: the code from one resumption to  *)
(* the next I/O await.  AsyncStorage serves requests in the order they     *)
(* are issued, so a getItem/setItem takes effect where it is issued; a     *)
(* remote call takes effect where its caller resumes.                      *)
(***************************************************************************)
EXTENDS Integers, Sequences, FiniteSets, TLC

\* ------------------------------------------------------------------ bounds

\* Timestamps (Date values) range over 0..MaxTime.
MaxTime == 2
\* Environment events (API calls, triggers, connectivity changes, writes by
\* other devices, clock ticks) in one behaviour of the engine.
MaxEvents == 3
\* Rows the remote store can create with an id of its own.
MaxServerIds == 1
\* Length of the collections handed to the merge functions in SpecMerge.
MaxLen == 2

\* ------------------------------------------------------------- constants

MAX_RETRY_COUNT == 3

NoUser == "null"
Users == {"u1"}
\* `user?.id || 'guest'`: the key suffix of the local collections.
StoreKeys == Users \cup {"guest"}

NoteIds == {"n1", "n2"}
ServerIds == {"s1", "s2"}
ThreadIds == {"t1"}
LabelIds == {"l1"}
Contents == {"a", "b"}
Names == {"x", "y"}

SyncProcs == {"c1", "c2"}
Writers == {"w1", "w2"}

\* ----------------------------------------------------------- sequences

Range(s) == {s[i] : i \in 1..Len(s)}

Ids(s) == {s[i].id : i \in 1..Len(s)}

RECURSIVE FilterSeq(_, _)
\* Array.prototype.filter with the predicate "id is not in drop".
FilterSeq(s, drop) ==
  IF s = <<>> THEN <<>>
  ELSE IF Head(s).id \in drop THEN FilterSeq(Tail(s), drop)
       ELSE <<Head(s)>> \o FilterSeq(Tail(s), drop)

\* Array.prototype.findIndex by id: the first index, 0 when there is none.
FindIndex(s, id) ==
  IF \E i \in 1..Len(s) : s[i].id = id
  THEN CHOOSE i \in 1..Len(s) : s[i].id = id /\ \A j \in 1..(i - 1) : s[j].id # id
  ELSE 0

\* The entity of s with this id (the first one).
Lookup(s, id) == s[FindIndex(s, id)]

\* Map.prototype.set on an insertion-ordered map kept as a sequence: an
\* existing key keeps its place, a new key goes last.
MapSet(m, e) ==
  IF FindIndex(m, e.id) > 0 THEN [m EXCEPT ![FindIndex(m, e.id)] = e]
  ELSE Append(m, e)

RECURSIVE MapFromSeq(_, _)
\* xs.forEach(x => map.set(x.id, x)) starting from map m.
MapFromSeq(m, xs) ==
  IF xs = <<>> THEN m ELSE MapFromSeq(MapSet(m, Head(xs)), Tail(xs))

RECURSIVE InsertByUpdatedAtDesc(_, _)
InsertByUpdatedAtDesc(sorted, e) ==
  IF sorted = <<>> THEN <<e>>
  ELSE IF Head(sorted).updatedAt >= e.updatedAt
       THEN <<Head(sorted)>> \o InsertByUpdatedAtDesc(Tail(sorted), e)
       ELSE <<e>> \o sorted

\* The values of the map in the order of their insertion, not sorted.
InsertionOrder(s) == s

RECURSIVE SortByUpdatedAtDesc(_)
\* Array.prototype.sort((a, b) => b.updatedAt - a.updatedAt): stable.
SortByUpdatedAtDesc(s) ==
  IF s = <<>> THEN <<>>
  ELSE InsertByUpdatedAtDesc(SortByUpdatedAtDesc(SubSeq(s, 1, Len(s) - 1)), s[Len(s)])

\* String.prototype.localeCompare on the names of the model.
NameLeq(a, b) == a = b \/ (a = "x" /\ b = "y")

RECURSIVE InsertByName(_, _)
InsertByName(sorted, e) ==
  IF sorted = <<>> THEN <<e>>
  ELSE IF NameLeq(Head(sorted).name, e.name)
       THEN <<Head(sorted)>> \o InsertByName(Tail(sorted), e)
       ELSE <<e>> \o sorted

RECURSIVE SortByName(_)
\* Array.prototype.sort((a, b) => a.name.localeCompare(b.name)): stable.
SortByName(s) ==
  IF s = <<>> THEN <<>>
  ELSE InsertByName(SortByName(SubSeq(s, 1, Len(s) - 1)), s[Len(s)])

\* ---------------------------------------------------------------- merge

\* A merge where the cloud entity always replaces the local one.
CloudWinsAlways(localE, cloudE) == TRUE

\* A merge where the cloud entity replaces the local one on a tie too.
CloudWinsOnTie(localE, cloudE) == cloudE.updatedAt >= localE.updatedAt

\* The test of mergeNotes and mergeChatThreads that lets the cloud entity
\* replace the local one.
CloudWins(localE, cloudE) == cloudE.updatedAt > localE.updatedAt

\* The upload test of mergeNotes with >= in place of >.
LocalWinsOnTie(localE, cloudE) == localE.updatedAt >= cloudE.updatedAt

\* The test of mergeNotes that marks the local note for upload.
LocalWins(localE, cloudE) == localE.updatedAt > cloudE.updatedAt

RECURSIVE MergeByTime(_, _)
\* The loop over the cloud entities of mergeNotes / mergeChatThreads on the
\* map m seeded with the local entities.
MergeByTime(m, cloud) ==
  IF cloud = <<>> THEN m
  ELSE LET c == Head(cloud)
           i == FindIndex(m, c.id)
       IN IF i = 0 \/ (i > 0 /\ CloudWins(m[i], c))
          THEN MergeByTime(MapSet(m, c), Tail(cloud))
          ELSE MergeByTime(m, Tail(cloud))

RECURSIVE NoteWinners(_, _)
\* The local notes mergeNotes hands to addPendingOperation, in the order of
\* the cloud notes.
NoteWinners(m, cloud) ==
  IF cloud = <<>> THEN <<>>
  ELSE LET c == Head(cloud)
           i == FindIndex(m, c.id)
       IN IF i = 0 \/ (i > 0 /\ CloudWins(m[i], c))
          THEN NoteWinners(MapSet(m, c), Tail(cloud))
          ELSE IF LocalWins(m[i], c)
               THEN <<m[i]>> \o NoteWinners(m, Tail(cloud))
               ELSE NoteWinners(m, Tail(cloud))

\* mergeNotes: the merged collection and the notes it enqueues for upload.
MergeNotes(localNs, cloudNs) ==
  [result  |-> SortByUpdatedAtDesc(MergeByTime(MapFromSeq(<<>>, localNs), cloudNs)),
   winners |-> NoteWinners(MapFromSeq(<<>>, localNs), cloudNs)]

\* mergeChatThreads: the merged collection; it enqueues nothing.
MergeChatThreads(localTs, cloudTs) ==
  [result  |-> SortByUpdatedAtDesc(MergeByTime(MapFromSeq(<<>>, localTs), cloudTs)),
   winners |-> <<>>]

\* mergeLabels: the cloud label replaces the local one of the same id.
MergeLabels(localLs, cloudLs) ==
  [result  |-> SortByName(MapFromSeq(MapFromSeq(<<>>, localLs), cloudLs)),
   winners |-> <<>>]

\* ---------------------------------------------------------------- state

VARIABLES
  \* AuthService.currentUser and the device clock (new Date()).
  currentUser, now,
  \* SyncService.syncStatus and SyncService.pendingOperations.
  isOnline, isSyncing, pendingChanges, lastSyncTime, pendingOperations,
  \* AsyncStorage: notes_<key>, chatThreads_<key>, labels_<key>,
  \* pendingOperations, lastSyncTime.
  localNotes, localThreads, localLabels, storedPending, storedLastSyncTime,
  \* The remote store: the rows of notes, chat_threads and labels per user_id,
  \* and the number of ids it has generated.
  remoteNotes, remoteThreads, remoteLabels, serverIds,
  \* The running syncAll calls and the running saveNote / deleteNote /
  \* saveChatThread calls: where each is suspended, and its local variables.
  sync, writer,
  \* The value the last syncAll call returned, with a bit that flips at
  \* every return.
  ret,
  \* For each local notes collection and note id, the note the last
  \* saveNote call was given, or that the last call was a deleteNote.
  expect,
  \* SyncService.syncIntervalId, as a flag: the periodic timer is running.
  syncIntervalId,
  \* The environment events still to come.
  budget,
  \* The inputs and the output of a merge function applied on its own.
  mKind, mLocal, mCloud, mOut

engineVars ==
  <<currentUser, now, isOnline, isSyncing, pendingChanges, lastSyncTime,
    pendingOperations, localNotes, localThreads, localLabels, storedPending,
    storedLastSyncTime, remoteNotes, remoteThreads, remoteLabels, serverIds,
    sync, writer, ret, expect, syncIntervalId, budget>>

mergeVars == <<mKind, mLocal, mCloud, mOut>>

vars == <<engineVars, mergeVars>>

\* lastSyncTime: null.
NoTime == -1

\* No output yet.
NoOutput == [result |-> <<>>, winners |-> <<>>, done |-> FALSE]

\* A syncAll call that is not running.  While processPendingOperations runs,
\* idx is the position of its loop, ok its successfulOperations, and log the
\* entries it has replayed so far with the answer to each replay.
IdleSync ==
  [pc |-> "idle", user |-> NoUser, idx |-> 0, ok |-> {}, log |-> <<>>,
   snap |-> <<>>, result |-> <<>>, winners |-> <<>>]

\* No saveNote or deleteNote call yet, and a deleteNote call.
Untouched == [id |-> "none", updatedAt |-> NoTime, content |-> "none"]

Deleted == [id |-> "deleted", updatedAt |-> NoTime, content |-> "none"]

IdleWriter == [pc |-> "idle", op |-> "none", user |-> NoUser, arg |-> <<>>, snap |-> <<>>]

\* The state after `new SyncService()` and initialize(): the user restored
\* by AuthService.initialize, the connectivity NetInfo first reports, the
\* queue loadPendingOperations found, empty local collections, and the notes
\* other devices have written to the remote store.
EngineStart(users, online, queues, notes) ==
  /\ currentUser \in users
  /\ now = 1
  /\ isOnline = online
  /\ isSyncing = FALSE
  /\ pendingOperations \in queues
  /\ pendingChanges = Len(pendingOperations)
  /\ storedPending = pendingOperations
  /\ lastSyncTime = NoTime
  /\ localNotes = [k \in StoreKeys |-> <<>>]
  /\ localThreads = [k \in StoreKeys |-> <<>>]
  /\ localLabels = [k \in StoreKeys |-> <<>>]
  /\ storedLastSyncTime = NoTime
  /\ remoteNotes \in [Users -> notes]
  /\ remoteThreads = [u \in Users |-> {}]
  /\ remoteLabels = [u \in Users |-> {}]
  /\ serverIds = 0
  /\ sync = [p \in SyncProcs |-> IdleSync]
  /\ writer = [w \in Writers |-> IdleWriter]
  /\ ret = [flip |-> FALSE, value |-> FALSE]
  /\ expect = [k \in StoreKeys |-> [id \in NoteIds |-> Untouched]]
  /\ syncIntervalId = (currentUser # NoUser)

\* A first start: online, nothing stored.
EngineInit == EngineStart(Users \cup {NoUser}, TRUE, {<<>>}, {{}})

MergeIdle == mKind = "none" /\ mLocal = <<>> /\ mCloud = <<>> /\ mOut = NoOutput

\* ------------------------------------------- the merge functions alone

MergeIds == {"n1", "n2"}

TimedEntities == [id : MergeIds, updatedAt : 0..MaxTime, content : Contents]

NamedEntities == [id : MergeIds, name : Names]

\* The collections of at most MaxLen entities with one entity per id.
Collections(E) ==
  {s \in UNION {[1..k -> E] : k \in 0..MaxLen} :
     \A i, j \in 1..Len(s) : i # j => s[i].id # s[j].id}

\* What DatabaseService.getNotes / getChatThreads return: ordered by
\* updated_at descending.
IsSortedByUpdatedAtDesc(s) ==
  \A i \in 1..(Len(s) - 1) : s[i].updatedAt >= s[i + 1].updatedAt

\* What DatabaseService.getLabels returns: ordered by name ascending.
IsSortedByName(s) ==
  \A i \in 1..(Len(s) - 1) : NameLeq(s[i].name, s[i + 1].name)

InitMerge ==
  /\ EngineInit /\ currentUser = NoUser /\ budget = 0
  /\ mKind \in {"notes", "chatThreads", "labels"}
  /\ mLocal \in (IF mKind = "labels" THEN Collections(NamedEntities)
                 ELSE Collections(TimedEntities))
  /\ mCloud \in (IF mKind = "labels"
                 THEN {s \in Collections(NamedEntities) : IsSortedByName(s)}
                 ELSE {s \in Collections(TimedEntities) : IsSortedByUpdatedAtDesc(s)})
  /\ mOut = NoOutput

\* The entry addPendingOperation builds (its timestamp is never read).
PendingOperation(type, collection, data) ==
  [id |-> data.id, type |-> type, collection |-> collection, data |-> data,
   retryCount |-> 0]

\* The queue after addPendingOperation('update', 'notes', n) for each of
\* these notes, in order.
EnqueuedNotes(q, winners) ==
  q \o [i \in 1..Len(winners) |-> PendingOperation("update", "notes", winners[i])]

\* A call of mergeNotes, with the addPendingOperation calls of its loop.
ApplyMergeNotes ==
  /\ mKind = "notes" /\ mOut = NoOutput
  /\ mOut' = MergeNotes(mLocal, mCloud)
  /\ pendingOperations' = EnqueuedNotes(pendingOperations, mOut'.winners)
  /\ pendingChanges' = Len(pendingOperations')
  /\ storedPending' = pendingOperations'
  /\ UNCHANGED <<currentUser, now, isOnline, isSyncing, lastSyncTime, localNotes,
                 localThreads, localLabels, storedLastSyncTime, remoteNotes,
                 remoteThreads, remoteLabels, serverIds, sync, writer, ret, expect,
                 syncIntervalId, budget, mKind, mLocal, mCloud>>

ApplyMergeChatThreads ==
  /\ mKind = "chatThreads" /\ mOut = NoOutput
  /\ mOut' = MergeChatThreads(mLocal, mCloud)
  /\ UNCHANGED <<engineVars, mKind, mLocal, mCloud>>

ApplyMergeLabels ==
  /\ mKind = "labels" /\ mOut = NoOutput
  /\ mOut' = MergeLabels(mLocal, mCloud)
  /\ UNCHANGED <<engineVars, mKind, mLocal, mCloud>>

NextMerge == ApplyMergeNotes \/ ApplyMergeChatThreads \/ ApplyMergeLabels

SpecMerge == InitMerge /\ [][NextMerge]_vars

\* The entities of a collection with this id.
WithId(s, id) == {e \in Range(s) : e.id = id}

Merged == mOut # NoOutput

\* C8: for notes and chat threads the merge holds, for every id, the remote
\* entity when the id is absent locally or the remote updatedAt is greater,
\* the local entity when the local updatedAt is greater, and the local
\* entity when the id exists only locally.
C8_MergeLastWriteWins ==
  (Merged /\ mKind \in {"notes", "chatThreads"}) =>
    \A id \in MergeIds :
      LET l == WithId(mLocal, id)
          c == WithId(mCloud, id)
          r == WithId(mOut.result, id)
      IN /\ (c # {} /\ l = {}) => r = c
         /\ (c # {} /\ l # {}) =>
              \A le \in l, ce \in c :
                /\ ce.updatedAt > le.updatedAt => r = {ce}
                /\ le.updatedAt > ce.updatedAt => r = {le}
         /\ (c = {} /\ l # {}) => r = l

\* A merge of notes where one id is newer remotely, with another content,
\* and the other id is newer locally.
C8_Witness ==
  /\ Merged /\ mKind = "notes"
  /\ \E le \in Range(mLocal), ce \in Range(mCloud) :
       le.id = ce.id /\ ce.updatedAt > le.updatedAt /\ ce.content # le.content
  /\ \E le \in Range(mLocal), ce \in Range(mCloud) :
       le.id = ce.id /\ le.updatedAt > ce.updatedAt /\ ce.content # le.content

\* C9 as claimed: on equal updatedAt the merged result holds the remote
\* entity.
C9_TieTowardRemote ==
  (Merged /\ mKind \in {"notes", "chatThreads"}) =>
    \A le \in Range(mLocal), ce \in Range(mCloud) :
      (le.id = ce.id /\ le.updatedAt = ce.updatedAt) =>
        WithId(mOut.result, ce.id) = {ce}

\* C9 as the code has it: on equal updatedAt the merged result holds the
\* local entity, and the merge does not enqueue it for upload.
C9_TieKeepsLocal ==
  (Merged /\ mKind \in {"notes", "chatThreads"}) =>
    \A le \in Range(mLocal), ce \in Range(mCloud) :
      (le.id = ce.id /\ le.updatedAt = ce.updatedAt) =>
        /\ WithId(mOut.result, ce.id) = {le}
        /\ le \notin Range(mOut.winners)

\* A merge where a shared id has equal timestamps and different contents.
C9_Witness ==
  /\ Merged /\ mKind \in {"notes", "chatThreads"}
  /\ \E le \in Range(mLocal), ce \in Range(mCloud) :
       le.id = ce.id /\ le.updatedAt = ce.updatedAt /\ le.content # ce.content

\* ------------------------------------------------------ the remote store

\* user?.id || 'guest'
Key(user) == IF user = NoUser THEN "guest" ELSE user

RECURSIVE CloudSeq(_)
\* select('*').eq('user_id', userId).order('updated_at', {ascending: false})
CloudSeq(rows) ==
  IF rows = {} THEN <<>>
  ELSE LET e == CHOOSE x \in rows : \A y \in rows : x.updatedAt >= y.updatedAt
       IN <<e>> \o CloudSeq(rows \ {e})

RECURSIVE CloudSeqByName(_)
\* select('*').eq('user_id', userId).order('name', {ascending: true})
CloudSeqByName(rows) ==
  IF rows = {} THEN <<>>
  ELSE LET e == CHOOSE x \in rows : \A y \in rows : NameLeq(x.name, y.name)
       IN <<e>> \o CloudSeqByName(rows \ {e})

\* Whether a table holds a row with this id (for any user_id).
HasRow(table, id) == \E u \in Users : \E r \in table[u] : r.id = id

\* update(...).eq('id', id): the row keeps its user_id and takes the fields
\* of data; updated_at is the caller's new Date().
UpdateRow(table, id, data) ==
  [u \in Users |->
     {IF r.id = id THEN [id |-> id, updatedAt |-> now, content |-> data.content] ELSE r
        : r \in table[u]}]

\* insert([...]) for this user_id with an id the store generates.
InsertRow(table, u, newId, data) ==
  [table EXCEPT ![u] = @ \cup {[id |-> newId, updatedAt |-> now, content |-> data.content]}]

\* delete().eq('id', id)
DeleteRow(table, id) == [u \in Users |-> {r \in table[u] : r.id # id}]

ServerIdSeq == <<"s1", "s2">>

\* ------------------------------------------------- the pending queue

\* addPendingOperation pushing its entry twice.
AddPendingOperationTwice(type, collection, data) ==
  LET op == PendingOperation(type, collection, data)
      q == pendingOperations \o <<op, op>>
  IN /\ pendingOperations' = q
     /\ pendingChanges' = Len(q)
     /\ storedPending' = q

\* addPendingOperation putting its entry at the head of the queue.
AddPendingOperationAtHead(type, collection, data) ==
  LET q == <<PendingOperation(type, collection, data)>> \o pendingOperations
  IN /\ pendingOperations' = q
     /\ pendingChanges' = Len(q)
     /\ storedPending' = q

\* addPendingOperation without its update of syncStatus.pendingChanges.
AddPendingOperationUncounted(type, collection, data) ==
  LET q == Append(pendingOperations, PendingOperation(type, collection, data))
  IN /\ pendingOperations' = q
     /\ pendingChanges' = pendingChanges
     /\ storedPending' = q

\* addPendingOperation: push, pendingChanges = length, savePendingOperations.
AddPendingOperation(type, collection, data) ==
  LET q == Append(pendingOperations, PendingOperation(type, collection, data))
  IN /\ pendingOperations' = q
     /\ pendingChanges' = Len(q)
     /\ storedPending' = q

QueueUnchanged == UNCHANGED <<pendingOperations, pendingChanges, storedPending>>

\* ------------------------------------------------------------- syncAll

Syncing(p) == sync[p].pc # "idle"

\* syncAll without its first early return.
SyncGuardNoFlag(online) == currentUser # NoUser /\ online

\* syncAll without its second early return.
SyncGuardNoUser(online) == ~isSyncing /\ online

\* The three early returns of syncAll, negated.
SyncGuard(online) == ~isSyncing /\ currentUser # NoUser /\ online

\* The slot of the model a new cycle runs in.
FreeProc == IF ~Syncing("c1") THEN "c1" ELSE "c2"

Return(v) == ret' = [flip |-> ~ret.flip, value |-> v]

\* syncAll going to syncNotes without processPendingOperations.
SyncAcceptedSkipsDrain ==
  /\ ~Syncing(FreeProc)
  /\ isSyncing' = TRUE
  /\ sync' = [sync EXCEPT ![FreeProc] =
       [IdleSync EXCEPT !.pc = "notesCloud", !.user = currentUser,
                        !.snap = localNotes[Key(currentUser)]]]
  /\ UNCHANGED ret

\* syncAll past its guards, up to its first await: isSyncing = true, and
\* processPendingOperations up to its first replay or, with an empty queue,
\* syncNotes up to the read of the cloud notes.
SyncAccepted ==
  /\ ~Syncing(FreeProc)
  /\ isSyncing' = TRUE
  /\ sync' = [sync EXCEPT ![FreeProc] =
       IF pendingOperations = <<>>
       THEN [IdleSync EXCEPT !.pc = "notesCloud", !.user = currentUser,
                             !.snap = localNotes[Key(currentUser)]]
       ELSE [IdleSync EXCEPT !.pc = "drain", !.user = currentUser, !.idx = 1]]
  /\ UNCHANGED ret

\* An early return that passes through the finally block.
SyncRejectedClearsFlag ==
  /\ Return(FALSE)
  /\ isSyncing' = FALSE
  /\ UNCHANGED sync

\* syncAll stopped by one of its guards: return false.
SyncRejected ==
  /\ Return(FALSE)
  /\ UNCHANGED <<isSyncing, sync>>

\* syncAll up to its first await.  `online` is syncStatus.isOnline as the
\* caller has just set it.
SyncAll(online) ==
  /\ IF SyncGuard(online) THEN SyncAccepted ELSE SyncRejected
  /\ UNCHANGED <<currentUser, now, lastSyncTime, localNotes, localThreads,
                 localLabels, storedLastSyncTime, remoteNotes, remoteThreads,
                 remoteLabels, serverIds, writer, expect>>
  /\ QueueUnchanged

Spend == budget > 0 /\ budget' = budget - 1

\* The NetInfo callback calling syncAll on every event that reports a
\* connection.
NetInfoSyncsWhenConnected(connected) ==
  /\ Spend
  /\ isOnline' = connected
  /\ IF connected
     THEN SyncAll(connected)
     ELSE UNCHANGED <<currentUser, now, isSyncing, pendingChanges, lastSyncTime,
                      pendingOperations, localNotes, localThreads, localLabels,
                      storedPending, storedLastSyncTime, remoteNotes, remoteThreads,
                      remoteLabels, serverIds, sync, writer, ret, expect>>
  /\ UNCHANGED <<syncIntervalId, mergeVars>>

\* NetInfo.addEventListener callback.
NetInfoChange(connected) ==
  /\ Spend
  /\ isOnline' = connected
  /\ IF ~isOnline /\ connected
     THEN SyncAll(connected)
     ELSE UNCHANGED <<currentUser, now, isSyncing, pendingChanges, lastSyncTime,
                      pendingOperations, localNotes, localThreads, localLabels,
                      storedPending, storedLastSyncTime, remoteNotes, remoteThreads,
                      remoteLabels, serverIds, sync, writer, ret, expect>>
  /\ UNCHANGED <<syncIntervalId, mergeVars>>

\* AppState.addEventListener('change') callback with nextAppState 'active'.
AppStateActive ==
  /\ Spend
  /\ isOnline
  /\ SyncAll(isOnline)
  /\ UNCHANGED <<isOnline, syncIntervalId, mergeVars>>

\* The setInterval callback of startPeriodicSync.
PeriodicSync ==
  /\ Spend
  /\ syncIntervalId
  /\ isOnline /\ ~isSyncing
  /\ SyncAll(isOnline)
  /\ UNCHANGED <<isOnline, syncIntervalId, mergeVars>>

\* forcSync, and the direct syncAll calls of the screens.
ForcSync ==
  /\ Spend
  /\ SyncAll(isOnline)
  /\ UNCHANGED <<isOnline, syncIntervalId, mergeVars>>

\* ------------------------------------------- the steps of a sync cycle

envVars == <<currentUser, now, isOnline, syncIntervalId, budget>>

queueVars == <<pendingOperations, pendingChanges, storedPending>>

localVars == <<localNotes, localThreads, localLabels>>

remoteVars == <<remoteNotes, remoteThreads, remoteLabels, serverIds>>

\* Whether the remote store can answer this replay with success:
\* update(...).single() needs the row, delete() does not, and
\* processPendingLabelOperation has no 'update' case.
Replayable(op) ==
  CASE op.collection = "notes" /\ op.type = "update" -> HasRow(remoteNotes, op.data.id)
    [] op.collection = "notes" /\ op.type = "delete" -> TRUE
    [] op.collection = "chatThreads" /\ op.type = "update" -> HasRow(remoteThreads, op.data.id)
    [] OTHER -> FALSE

\* The remote store after a successful replay of op.
Replayed(op) ==
  CASE op.collection = "notes" /\ op.type = "update" ->
         /\ remoteNotes' = UpdateRow(remoteNotes, op.data.id, op.data)
         /\ UNCHANGED <<remoteThreads, remoteLabels, serverIds>>
    [] op.collection = "notes" /\ op.type = "delete" ->
         /\ remoteNotes' = DeleteRow(remoteNotes, op.data.id)
         /\ UNCHANGED <<remoteThreads, remoteLabels, serverIds>>
    [] op.collection = "chatThreads" /\ op.type = "update" ->
         /\ remoteThreads' = UpdateRow(remoteThreads, op.data.id, op.data)
         /\ UNCHANGED <<remoteNotes, remoteLabels, serverIds>>
    [] OTHER -> UNCHANGED remoteVars

\* What the loop of processPendingOperations does with the answer to one
\* replay: the ids to remove and the retry count of the entry.
Removable(op, outcome) ==
  \/ outcome = "ok"
  \/ outcome = "fail" /\ op.retryCount + 1 >= MAX_RETRY_COUNT

\* One iteration of the loop of processPendingOperations: the entry as the
\* loop found it, and the answer to its replay.
Replay(op, outcome) == [op |-> op, outcome |-> outcome]

\* The filter that ends processPendingOperations.
RemoveSuccessful(q, ids) == FilterSeq(q, ids)

\* processPendingOperations from the answer to the replay of entry idx to
\* the next replay or, after the last entry, to savePendingOperations.
SyncDrain(p) ==
  /\ sync[p].pc = "drain"
  /\ sync[p].idx <= Len(pendingOperations)
  /\ LET i == sync[p].idx
         op == pendingOperations[i]
     IN \E outcome \in {"ok", "fail", "raise"} :
          /\ outcome = "ok" => Replayable(op)
          /\ IF outcome = "ok" THEN Replayed(op) ELSE UNCHANGED remoteVars
          /\ LET q == IF outcome = "ok" THEN pendingOperations
                      ELSE [pendingOperations EXCEPT ![i].retryCount = @ + 1]
                 ok == IF Removable(op, outcome) THEN sync[p].ok \cup {op.id}
                       ELSE sync[p].ok
             IN IF i < Len(q)
                THEN /\ pendingOperations' = q
                     /\ sync' = [sync EXCEPT ![p].idx = i + 1, ![p].ok = ok,
                                             ![p].log = Append(@, Replay(op, outcome))]
                     /\ UNCHANGED <<pendingChanges, storedPending>>
                ELSE /\ pendingOperations' = RemoveSuccessful(q, ok)
                     /\ pendingChanges' = Len(pendingOperations')
                     /\ storedPending' = pendingOperations'
                     /\ sync' = [sync EXCEPT ![p].pc = "notesLocal", ![p].idx = 0,
                                             ![p].ok = {},
                                             ![p].log = Append(@, Replay(op, outcome))]
  /\ UNCHANGED <<envVars, localVars, isSyncing, lastSyncTime, storedLastSyncTime,
                 ret, expect, writer, mergeVars>>

\* The catch block of syncAll without the finally block.
SyncFailedKeepsFlag(p) ==
  /\ UNCHANGED isSyncing
  /\ Return(FALSE)
  /\ sync' = [sync EXCEPT ![p] = IdleSync]

\* The catch and finally blocks of syncAll.
SyncFailed(p) ==
  /\ isSyncing' = FALSE
  /\ Return(FALSE)
  /\ sync' = [sync EXCEPT ![p] = IdleSync]

\* An exception inside syncNotes, syncChatThreads or syncLabels: each
\* rethrows it, and syncAll ends the cycle.
SyncThrow(p) ==
  /\ sync[p].pc \in {"notesLocal", "notesCloud", "notesEnq", "threadsLocal",
                     "threadsCloud", "labelsLocal", "labelsCloud"}
  /\ SyncFailed(p)
  /\ UNCHANGED <<envVars, queueVars, localVars, remoteVars, lastSyncTime,
                 storedLastSyncTime, writer, expect, mergeVars>>

\* What getNotes / getChatThreads / getLabels can return: the rows, or []
\* when the request fails.
CloudReads(rows) == {rows, {}}

\* syncNotes: getLocalNotes.
SyncNotesLocal(p) ==
  /\ sync[p].pc = "notesLocal"
  /\ sync' = [sync EXCEPT ![p].pc = "notesCloud", ![p].log = <<>>,
                          ![p].snap = localNotes[Key(sync[p].user)]]
  /\ UNCHANGED <<envVars, queueVars, localVars, remoteVars, isSyncing, lastSyncTime,
                 storedLastSyncTime, ret, expect, writer, mergeVars>>

\* syncNotes from the answer of getNotes: mergeNotes up to its first
\* addPendingOperation or, when it has none, to saveLocalNotes.
SyncNotesCloud(p) ==
  /\ sync[p].pc = "notesCloud"
  /\ sync[p].user \in Users
  /\ \E rows \in CloudReads(remoteNotes[sync[p].user]) :
       LET m == MergeNotes(sync[p].snap, CloudSeq(rows))
       IN IF m.winners = <<>>
          THEN /\ localNotes' = [localNotes EXCEPT ![Key(sync[p].user)] = m.result]
               /\ sync' = [sync EXCEPT ![p].pc = "threadsLocal", ![p].snap = <<>>]
               /\ QueueUnchanged
          ELSE /\ AddPendingOperation("update", "notes", Head(m.winners))
               /\ sync' = [sync EXCEPT ![p].pc = "notesEnq", ![p].snap = <<>>,
                                       ![p].result = m.result,
                                       ![p].winners = Tail(m.winners)]
               /\ UNCHANGED localNotes
  /\ UNCHANGED <<envVars, localThreads, localLabels, remoteVars, isSyncing,
                 lastSyncTime, storedLastSyncTime, ret, expect, writer, mergeVars>>

\* mergeNotes after an addPendingOperation: the next one or, after the
\* last, saveLocalNotes.
SyncNotesEnq(p) ==
  /\ sync[p].pc = "notesEnq"
  /\ IF sync[p].winners = <<>>
     THEN /\ localNotes' = [localNotes EXCEPT ![Key(sync[p].user)] = sync[p].result]
          /\ sync' = [sync EXCEPT ![p].pc = "threadsLocal", ![p].result = <<>>]
          /\ QueueUnchanged
     ELSE /\ AddPendingOperation("update", "notes", Head(sync[p].winners))
          /\ sync' = [sync EXCEPT ![p].winners = Tail(@)]
          /\ UNCHANGED localNotes
  /\ UNCHANGED <<envVars, localThreads, localLabels, remoteVars, isSyncing,
                 lastSyncTime, storedLastSyncTime, ret, expect, writer, mergeVars>>

\* syncChatThreads: getLocalChatThreads.
SyncThreadsLocal(p) ==
  /\ sync[p].pc = "threadsLocal"
  /\ sync' = [sync EXCEPT ![p].pc = "threadsCloud",
                          ![p].snap = localThreads[Key(sync[p].user)]]
  /\ UNCHANGED <<envVars, queueVars, localVars, remoteVars, isSyncing, lastSyncTime,
                 storedLastSyncTime, ret, expect, writer, mergeVars>>

\* syncChatThreads from the answer of getChatThreads to saveLocalChatThreads.
SyncThreadsCloud(p) ==
  /\ sync[p].pc = "threadsCloud"
  /\ sync[p].user \in Users
  /\ \E rows \in CloudReads(remoteThreads[sync[p].user]) :
       localThreads' = [localThreads EXCEPT ![Key(sync[p].user)] =
                          MergeChatThreads(sync[p].snap, CloudSeq(rows)).result]
  /\ sync' = [sync EXCEPT ![p].pc = "labelsLocal", ![p].snap = <<>>]
  /\ UNCHANGED <<envVars, queueVars, localNotes, localLabels, remoteVars, isSyncing,
                 lastSyncTime, storedLastSyncTime, ret, expect, writer, mergeVars>>

\* syncLabels: getLocalLabels.
SyncLabelsLocal(p) ==
  /\ sync[p].pc = "labelsLocal"
  /\ sync' = [sync EXCEPT ![p].pc = "labelsCloud",
                          ![p].snap = localLabels[Key(sync[p].user)]]
  /\ UNCHANGED <<envVars, queueVars, localVars, remoteVars, isSyncing, lastSyncTime,
                 storedLastSyncTime, ret, expect, writer, mergeVars>>

\* syncLabels from the answer of getLabels to saveLocalLabels.
SyncLabelsCloud(p) ==
  /\ sync[p].pc = "labelsCloud"
  /\ sync[p].user \in Users
  /\ \E rows \in CloudReads(remoteLabels[sync[p].user]) :
       localLabels' = [localLabels EXCEPT ![Key(sync[p].user)] =
                         MergeLabels(sync[p].snap, CloudSeqByName(rows)).result]
  /\ sync' = [sync EXCEPT ![p].pc = "stamp", ![p].snap = <<>>]
  /\ UNCHANGED <<envVars, queueVars, localNotes, localThreads, remoteVars, isSyncing,
                 lastSyncTime, storedLastSyncTime, ret, expect, writer, mergeVars>>

\* syncAll: lastSyncTime = new Date() and saveLastSyncTime.
SyncStamp(p) ==
  /\ sync[p].pc = "stamp"
  /\ lastSyncTime' = now
  /\ storedLastSyncTime' = now
  /\ sync' = [sync EXCEPT ![p].pc = "return"]
  /\ UNCHANGED <<envVars, queueVars, localVars, remoteVars, isSyncing, ret, expect, writer,
                 mergeVars>>

\* syncAll: return true, through the finally block.
SyncReturn(p) ==
  /\ sync[p].pc = "return"
  /\ isSyncing' = FALSE
  /\ Return(TRUE)
  /\ sync' = [sync EXCEPT ![p] = IdleSync]
  /\ UNCHANGED <<envVars, queueVars, localVars, remoteVars, lastSyncTime,
                 storedLastSyncTime, writer, expect, mergeVars>>

\* ------------------------------- saveNote, deleteNote, saveChatThread

Idle(w) == writer[w].pc = "idle"

\* What the screens hand to saveNote and saveChatThread: the entity with
\* updatedAt: new Date().
EditsWith(ids, contents) == [id : ids, updatedAt : {now}, content : contents]

Edits(ids) == EditsWith(ids, {"a"})

\* updateLocalNote taking out the entity of this id and putting the new
\* one at the front.
UpdateLocalMovesToFront(coll, e) == <<e>> \o FilterSeq(coll, {e.id})

\* updateLocalNote / updateLocalChatThread on the collection it has read.
UpdateLocal(coll, e) ==
  IF FindIndex(coll, e.id) > 0 THEN [coll EXCEPT ![FindIndex(coll, e.id)] = e]
  ELSE <<e>> \o coll

\* removeLocalNote on the collection it has read.
RemoveLocal(coll, id) == FilterSeq(coll, {id})

\* The test of saveNote and deleteNote without its isOnline conjunct.
WritesThroughOffline(user) == user # NoUser /\ user # "guest"

\* `user && user.id !== 'guest' && this.syncStatus.isOnline`
WritesThrough(user) == user # NoUser /\ user # "guest" /\ isOnline

\* The guest test without its `!user` half.
IsGuestIdOnly(user) == user = "guest"

\* `!user || user.id === 'guest'`
IsGuest(user) == user = NoUser \/ user = "guest"

\* saveNote up to the getItem of updateLocalNote.
SaveNoteCall(w, note) ==
  /\ Spend
  /\ Idle(w)
  /\ writer' = [writer EXCEPT ![w] =
       [pc |-> "write", op |-> "saveNote", user |-> currentUser, arg |-> note,
        snap |-> localNotes[Key(currentUser)]]]
  /\ expect' = [expect EXCEPT ![Key(currentUser)][note.id] = note]
  /\ UNCHANGED <<currentUser, now, isOnline, syncIntervalId, queueVars, localVars,
                 remoteVars, isSyncing, lastSyncTime, storedLastSyncTime, ret, sync,
                 mergeVars>>

\* updateLocalNote from the answer of getItem to the setItem of
\* saveLocalNotes.
SaveNoteWrite(w) ==
  /\ writer[w].pc = "write" /\ writer[w].op = "saveNote"
  /\ localNotes' = [localNotes EXCEPT ![Key(writer[w].user)] =
                      UpdateLocal(writer[w].snap, writer[w].arg)]
  /\ writer' = [writer EXCEPT ![w].pc = "branch", ![w].snap = <<>>]
  /\ UNCHANGED <<envVars, queueVars, localThreads, localLabels, remoteVars, isSyncing,
                 lastSyncTime, storedLastSyncTime, ret, expect, sync, mergeVars>>

\* saveNote after updateLocalNote: the cloud write is issued, or the note
\* stays local (guest), or the update is enqueued (offline).
SaveNoteBranch(w) ==
  /\ writer[w].pc = "branch" /\ writer[w].op = "saveNote"
  /\ IF WritesThrough(writer[w].user)
     THEN /\ writer' = [writer EXCEPT ![w].pc = "remote"]
          /\ QueueUnchanged
     ELSE IF IsGuest(writer[w].user)
     THEN /\ writer' = [writer EXCEPT ![w] = IdleWriter]
          /\ QueueUnchanged
     ELSE /\ AddPendingOperation("update", "notes", writer[w].arg)
          /\ writer' = [writer EXCEPT ![w] = IdleWriter]
  /\ UNCHANGED <<envVars, localVars, remoteVars, isSyncing, lastSyncTime,
                 storedLastSyncTime, ret, expect, sync, mergeVars>>

\* saveNote from the answer of databaseService.saveNote: updateNote
\* succeeded; or it returned null and createNote inserted a row with an id
\* of the store's own; or both failed and the update is enqueued.
SaveNoteRemote(w) ==
  /\ writer[w].pc = "remote" /\ writer[w].op = "saveNote"
  /\ \E outcome \in {"updated", "created", "failed"} :
       CASE outcome = "updated" ->
              /\ HasRow(remoteNotes, writer[w].arg.id)
              /\ remoteNotes' = UpdateRow(remoteNotes, writer[w].arg.id, writer[w].arg)
              /\ UNCHANGED serverIds
              /\ QueueUnchanged
         [] outcome = "created" ->
              /\ serverIds < MaxServerIds
              /\ remoteNotes' = InsertRow(remoteNotes, writer[w].user,
                                          ServerIdSeq[serverIds + 1], writer[w].arg)
              /\ serverIds' = serverIds + 1
              /\ QueueUnchanged
         [] outcome = "failed" ->
              /\ AddPendingOperation("update", "notes", writer[w].arg)
              /\ UNCHANGED <<remoteNotes, serverIds>>
  /\ writer' = [writer EXCEPT ![w] = IdleWriter]
  /\ UNCHANGED <<envVars, localVars, remoteThreads, remoteLabels, isSyncing,
                 lastSyncTime, storedLastSyncTime, ret, expect, sync, mergeVars>>

\* deleteNote up to the getItem of removeLocalNote.
DeleteNoteCall(w, noteId) ==
  /\ Spend
  /\ Idle(w)
  /\ writer' = [writer EXCEPT ![w] =
       [pc |-> "write", op |-> "deleteNote", user |-> currentUser,
        arg |-> [id |-> noteId], snap |-> localNotes[Key(currentUser)]]]
  /\ expect' = [expect EXCEPT ![Key(currentUser)][noteId] = Deleted]
  /\ UNCHANGED <<currentUser, now, isOnline, syncIntervalId, queueVars, localVars,
                 remoteVars, isSyncing, lastSyncTime, storedLastSyncTime, ret, sync,
                 mergeVars>>

\* removeLocalNote from the answer of getItem to the setItem of
\* saveLocalNotes.
DeleteNoteWrite(w) ==
  /\ writer[w].pc = "write" /\ writer[w].op = "deleteNote"
  /\ localNotes' = [localNotes EXCEPT ![Key(writer[w].user)] =
                      RemoveLocal(writer[w].snap, writer[w].arg.id)]
  /\ writer' = [writer EXCEPT ![w].pc = "branch", ![w].snap = <<>>]
  /\ UNCHANGED <<envVars, queueVars, localThreads, localLabels, remoteVars, isSyncing,
                 lastSyncTime, storedLastSyncTime, ret, expect, sync, mergeVars>>

\* deleteNote after removeLocalNote.
DeleteNoteBranch(w) ==
  /\ writer[w].pc = "branch" /\ writer[w].op = "deleteNote"
  /\ IF WritesThrough(writer[w].user)
     THEN /\ writer' = [writer EXCEPT ![w].pc = "remote"]
          /\ QueueUnchanged
     ELSE IF IsGuest(writer[w].user)
     THEN /\ writer' = [writer EXCEPT ![w] = IdleWriter]
          /\ QueueUnchanged
     ELSE /\ AddPendingOperation("delete", "notes", writer[w].arg)
          /\ writer' = [writer EXCEPT ![w] = IdleWriter]
  /\ UNCHANGED <<envVars, localVars, remoteVars, isSyncing, lastSyncTime,
                 storedLastSyncTime, ret, expect, sync, mergeVars>>

\* deleteNote from the answer of databaseService.deleteNote.
DeleteNoteRemote(w) ==
  /\ writer[w].pc = "remote" /\ writer[w].op = "deleteNote"
  /\ \E success \in BOOLEAN :
       IF success
       THEN /\ remoteNotes' = DeleteRow(remoteNotes, writer[w].arg.id)
            /\ QueueUnchanged
       ELSE /\ AddPendingOperation("delete", "notes", writer[w].arg)
            /\ UNCHANGED remoteNotes
  /\ writer' = [writer EXCEPT ![w] = IdleWriter]
  /\ UNCHANGED <<envVars, localVars, remoteThreads, remoteLabels, serverIds, isSyncing,
                 lastSyncTime, storedLastSyncTime, ret, expect, sync, mergeVars>>

\* saveChatThread up to the getItem of updateLocalChatThread.
SaveChatThreadCall(w, thread) ==
  /\ Spend
  /\ Idle(w)
  /\ writer' = [writer EXCEPT ![w] =
       [pc |-> "write", op |-> "saveChatThread", user |-> currentUser,
        arg |-> thread, snap |-> localThreads[Key(currentUser)]]]
  /\ UNCHANGED <<currentUser, now, isOnline, syncIntervalId, queueVars, localVars,
                 remoteVars, isSyncing, lastSyncTime, storedLastSyncTime, ret, expect, sync,
                 mergeVars>>

\* updateLocalChatThread from the answer of getItem to the setItem of
\* saveLocalChatThreads.
SaveChatThreadWrite(w) ==
  /\ writer[w].pc = "write" /\ writer[w].op = "saveChatThread"
  /\ localThreads' = [localThreads EXCEPT ![Key(writer[w].user)] =
                        UpdateLocal(writer[w].snap, writer[w].arg)]
  /\ writer' = [writer EXCEPT ![w].pc = "branch", ![w].snap = <<>>]
  /\ UNCHANGED <<envVars, queueVars, localNotes, localLabels, remoteVars, isSyncing,
                 lastSyncTime, storedLastSyncTime, ret, expect, sync, mergeVars>>

\* saveChatThread after updateLocalChatThread: it returns (no user), issues
\* updateChatThread (online) or enqueues the update (offline).
SaveChatThreadBranch(w) ==
  /\ writer[w].pc = "branch" /\ writer[w].op = "saveChatThread"
  /\ IF writer[w].user = NoUser
     THEN /\ writer' = [writer EXCEPT ![w] = IdleWriter]
          /\ QueueUnchanged
     ELSE IF isOnline
     THEN /\ writer' = [writer EXCEPT ![w].pc = "remote"]
          /\ QueueUnchanged
     ELSE /\ AddPendingOperation("update", "chatThreads", writer[w].arg)
          /\ writer' = [writer EXCEPT ![w] = IdleWriter]
  /\ UNCHANGED <<envVars, localVars, remoteVars, isSyncing, lastSyncTime,
                 storedLastSyncTime, ret, expect, sync, mergeVars>>

\* saveChatThread from the answer of databaseService.updateChatThread.
SaveChatThreadRemote(w) ==
  /\ writer[w].pc = "remote" /\ writer[w].op = "saveChatThread"
  /\ \E success \in BOOLEAN :
       IF success
       THEN /\ HasRow(remoteThreads, writer[w].arg.id)
            /\ remoteThreads' = UpdateRow(remoteThreads, writer[w].arg.id, writer[w].arg)
            /\ QueueUnchanged
       ELSE /\ AddPendingOperation("update", "chatThreads", writer[w].arg)
            /\ UNCHANGED remoteThreads
  /\ writer' = [writer EXCEPT ![w] = IdleWriter]
  /\ UNCHANGED <<envVars, localVars, remoteNotes, remoteLabels, serverIds, isSyncing,
                 lastSyncTime, storedLastSyncTime, ret, expect, sync, mergeVars>>

\* ---------------------------------------------------- the environment

\* The device clock advances.
ClockTick ==
  /\ Spend
  /\ now < MaxTime
  /\ now' = now + 1
  /\ UNCHANGED <<currentUser, isOnline, syncIntervalId, queueVars, localVars,
                 remoteVars, isSyncing, lastSyncTime, storedLastSyncTime, ret, expect, sync,
                 writer, mergeVars>>

\* AuthService.login.
Login(u) ==
  /\ Spend
  /\ currentUser = NoUser
  /\ currentUser' = u
  /\ UNCHANGED <<now, isOnline, syncIntervalId, queueVars, localVars, remoteVars,
                 isSyncing, lastSyncTime, storedLastSyncTime, ret, expect, sync, writer,
                 mergeVars>>

\* AuthService.logout.
Logout ==
  /\ Spend
  /\ currentUser # NoUser
  /\ currentUser' = NoUser
  /\ UNCHANGED <<now, isOnline, syncIntervalId, queueVars, localVars, remoteVars,
                 isSyncing, lastSyncTime, storedLastSyncTime, ret, expect, sync, writer,
                 mergeVars>>

\* Another device of the user writes a row of a table of the remote store.
Upsert(rows, e) == {r \in rows : r.id # e.id} \cup {e}

OtherDeviceWrites(u) ==
  /\ Spend
  /\ \/ \E id \in NoteIds, t \in 0..MaxTime :
          /\ remoteNotes' = [remoteNotes EXCEPT ![u] =
               Upsert(@, [id |-> id, updatedAt |-> t, content |-> "b"])]
          /\ UNCHANGED <<remoteThreads, remoteLabels>>
     \/ \E id \in ThreadIds, t \in 0..MaxTime :
          /\ remoteThreads' = [remoteThreads EXCEPT ![u] =
               Upsert(@, [id |-> id, updatedAt |-> t, content |-> "b"])]
          /\ UNCHANGED <<remoteNotes, remoteLabels>>
     \/ \E id \in LabelIds, n \in Names :
          /\ remoteLabels' = [remoteLabels EXCEPT ![u] = Upsert(@, [id |-> id, name |-> n])]
          /\ UNCHANGED <<remoteNotes, remoteThreads>>
  /\ UNCHANGED <<currentUser, now, isOnline, syncIntervalId, queueVars, localVars,
                 serverIds, isSyncing, lastSyncTime, storedLastSyncTime, ret, expect, sync,
                 writer, mergeVars>>

\* ------------------------------------------------- the specification

Init == EngineInit /\ budget = MaxEvents /\ MergeIdle

SyncStep(p) ==
  \/ SyncDrain(p)
  \/ SyncThrow(p)
  \/ SyncNotesLocal(p)
  \/ SyncNotesCloud(p)
  \/ SyncNotesEnq(p)
  \/ SyncThreadsLocal(p)
  \/ SyncThreadsCloud(p)
  \/ SyncLabelsLocal(p)
  \/ SyncLabelsCloud(p)
  \/ SyncStamp(p)
  \/ SyncReturn(p)

WriterStep(w) ==
  \/ SaveNoteWrite(w)
  \/ SaveNoteBranch(w)
  \/ SaveNoteRemote(w)
  \/ DeleteNoteWrite(w)
  \/ DeleteNoteBranch(w)
  \/ DeleteNoteRemote(w)
  \/ SaveChatThreadWrite(w)
  \/ SaveChatThreadBranch(w)
  \/ SaveChatThreadRemote(w)

\* The writer slot of the model a new call runs in.
FreeWriter == IF Idle("w1") THEN "w1" ELSE "w2"

Call ==
  \/ \E note \in Edits(NoteIds) : SaveNoteCall(FreeWriter, note)
  \/ \E id \in NoteIds : DeleteNoteCall(FreeWriter, id)
  \/ \E thread \in Edits(ThreadIds) : SaveChatThreadCall(FreeWriter, thread)

Trigger ==
  \/ \E connected \in BOOLEAN : NetInfoChange(connected)
  \/ AppStateActive
  \/ PeriodicSync
  \/ ForcSync

Environment ==
  \/ ClockTick
  \/ \E u \in Users : Login(u)
  \/ Logout
  \/ \E u \in Users : OtherDeviceWrites(u)

Next ==
  \/ \E p \in SyncProcs : SyncStep(p)
  \/ \E w \in Writers : WriterStep(w)
  \/ Call
  \/ Trigger
  \/ Environment

Spec == Init /\ [][Next]_vars

\* The notes of the remote store at a first start: none, or one that
\* another device wrote earlier.
EarlierNotes == {{}, {[id |-> "n1", updatedAt |-> 0, content |-> "b"]}}

InitFair ==
  /\ EngineStart(Users \cup {NoUser}, TRUE, {<<>>}, EarlierNotes)
  /\ budget = MaxEvents - 1
  /\ MergeIdle

\* The engine with its sync cycles scheduled fairly: every I/O request a
\* cycle awaits is answered, and the cycle resumes.
FairSpec == InitFair /\ [][Next]_vars /\ WF_vars(\E p \in SyncProcs : SyncStep(p))

\* ------------------------------------------------ the claims: syncAll

Running == {p \in SyncProcs : Syncing(p)}

\* A step in which a syncAll call passes its guards and starts a cycle.
CycleStarts == \E p \in SyncProcs : ~Syncing(p) /\ Syncing(p)'

\* A step in which a syncAll call returns without having started a cycle.
RequestRejected == ret' # ret /\ sync' = sync

\* A step in which a cycle ends and its syncAll call returns.
CycleEnds == \E p \in SyncProcs : Syncing(p) /\ ~Syncing(p)'

\* C1: at most one sync cycle runs at any time, whatever triggers arrive
\* while a cycle is running.
C1_AtMostOneSync == Cardinality(Running) <= 1

\* A cycle is running and the second of two sync requests has been rejected.
C1_Witness ==
  /\ Cardinality(Running) = 1
  /\ isSyncing /\ ret.flip /\ ~ret.value
  /\ budget = MaxEvents - 2

\* C4: isSyncing is set exactly while a cycle is running, it is false after
\* syncAll has returned (with true or through its catch block), and when
\* the awaited I/O is answered every cycle that sets it clears it again.
C4_CycleReturnsToIdle ==
  /\ [](isSyncing <=> Running # {})
  /\ [][CycleEnds => ~isSyncing']_vars
  /\ (isSyncing ~> ~isSyncing)

\* A cycle has failed in one of its collection steps and isSyncing is false.
C4_Witness ==
  /\ ret.flip /\ ~ret.value /\ ~isSyncing /\ Running = {}
  /\ currentUser # NoUser /\ isOnline
  /\ lastSyncTime = NoTime
  /\ budget = MaxEvents - 2

\* C5: a sync request that is rejected returns false, leaves the pending
\* queue, the local collections, the remote store, lastSyncTime and
\* isSyncing unchanged, and starts no cycle, then or later: a cycle starts
\* only in the step of a sync request.
C5_RejectedChangesNothing ==
  /\ [][RequestRejected =>
          /\ isSyncing \/ currentUser = NoUser \/ ~isOnline'
          /\ ~ret'.value
          /\ UNCHANGED <<queueVars, localVars, remoteVars, lastSyncTime,
                         storedLastSyncTime, isSyncing, sync, writer>>]_vars
  /\ [][CycleStarts => budget' < budget /\ ret' = ret]_vars

\* A request made while a cycle was running, with operations pending, has
\* been rejected.
C5_Witness ==
  /\ isSyncing /\ ret.flip /\ ~ret.value
  /\ pendingOperations # <<>>
  /\ budget = 0

\* C6: a cycle starts only when the engine is online and the current user
\* is an authenticated, non-guest user; a guest's request never starts one.
C6_SyncOnlyWhenOnlineAndAuthenticated ==
  /\ [](\A p \in Running : sync[p].user \in Users /\ sync[p].user # "guest")
  /\ [][CycleStarts => isOnline' /\ currentUser \in Users /\ currentUser # "guest"
                       /\ ~isSyncing]_vars

\* A guest has requested a sync while online, and the request was rejected.
C6_Witness ==
  /\ currentUser = NoUser /\ isOnline
  /\ ret.flip /\ ~ret.value /\ Running = {}
  /\ budget = MaxEvents - 1

\* --------------------------------------- the claims: the merge of labels
\* and chat threads

\* C10 as claimed: for each collection, every entity whose local copy is
\* strictly newer than its remote copy is kept in the merged collection and
\* handed to addPendingOperation as an update; an entity present only
\* locally is not.  (A label has no updatedAt: for labels only the second
\* half says anything.)
C10_LocalWinnersEnqueued ==
  Merged =>
    /\ mKind \in {"notes", "chatThreads"} =>
         \A le \in Range(mLocal), ce \in Range(mCloud) :
           (le.id = ce.id /\ le.updatedAt > ce.updatedAt) =>
             /\ WithId(mOut.result, le.id) = {le}
             /\ le \in Range(mOut.winners)
    /\ \A le \in Range(mLocal) :
         le.id \notin Ids(mCloud) => le \notin Range(mOut.winners)

\* ------------------------------ the claims: saveNote, deleteNote and the
\* local collections

AllIdle == \A w \in Writers : Idle(w)

Saved(e) == e # Untouched /\ e # Deleted

\* C3 as claimed: once every saveNote and deleteNote call and every sync
\* cycle has completed, a local collection holds every note that was saved,
\* as last saved or as a strictly newer version a merge took from the
\* remote store, and no note whose last call was deleteNote.
C3_NoLostUpdate ==
  (AllIdle /\ Running = {}) =>
    \A k \in StoreKeys, id \in NoteIds :
      /\ Saved(expect[k][id]) =>
           \E n \in Range(localNotes[k]) :
             /\ n.id = id
             /\ n = expect[k][id] \/ n.updatedAt > expect[k][id].updatedAt
      /\ expect[k][id] = Deleted => id \notin Ids(localNotes[k])

\* ---------------------------------------------- offline edits, then sync

\* What an edit writes into a note.
OfflineContents == {"a", "c"}

\* The user is signed in and the device starts offline.
InitOffline ==
  /\ EngineStart(Users, FALSE, {<<>>}, {{}})
  /\ budget = MaxEvents + 2
  /\ MergeIdle

\* saveNote while offline, one call after the other.
OfflineEdit ==
  /\ ~isOnline /\ AllIdle
  /\ \E note \in EditsWith(NoteIds, OfflineContents) : SaveNoteCall(FreeWriter, note)

\* Connectivity returns after the edits: the listener starts a cycle.
Reconnect == ~isOnline /\ AllIdle /\ NetInfoChange(TRUE)

NextOffline ==
  \/ OfflineEdit
  \/ \E w \in Writers : SaveNoteWrite(w) \/ SaveNoteBranch(w)
  \/ Reconnect
  \/ \E p \in SyncProcs : SyncStep(p)
  \/ ClockTick
  \/ \E u \in Users : OtherDeviceWrites(u)

SpecOffline == InitOffline /\ [][NextOffline]_vars

\* The cycle the reconnection started has completed.
CycleCompleted == isOnline /\ Running = {} /\ ret.flip /\ ret.value

\* C2: after offline edits, reconnection and one completed cycle, the local
\* notes hold for each edited id exactly one note: the last edit, or a
\* version with a strictly greater updatedAt.
C2_NoDataLossOfflineEdit ==
  CycleCompleted =>
    \A u \in Users, id \in NoteIds :
      Saved(expect[u][id]) =>
        /\ Cardinality({i \in 1..Len(localNotes[u]) : localNotes[u][i].id = id}) = 1
        /\ \/ Lookup(localNotes[u], id) = expect[u][id]
           \/ Lookup(localNotes[u], id).updatedAt > expect[u][id].updatedAt

\* After the cycle one edited note has been replaced by a newer note of
\* another device, and another edited note is kept as edited although the
\* remote store holds an older version of it.
C2_Witness ==
  /\ CycleCompleted
  /\ \E u \in Users, i, j \in NoteIds :
       /\ Saved(expect[u][i]) /\ Saved(expect[u][j])
       /\ Lookup(localNotes[u], i).updatedAt > expect[u][i].updatedAt
       /\ Lookup(localNotes[u], i).content = "b"
       /\ Lookup(localNotes[u], j) = expect[u][j]
       /\ \E r \in remoteNotes[u] : r.id = j /\ r.updatedAt < expect[u][j].updatedAt

\* -------------------------------------------------------- a guest session

\* The queue an earlier signed-in session can have left in storage.
LeftoverQueues ==
  {<<>>} \cup
  {<<PendingOperation("update", "notes", e)>> :
     e \in [id : NoteIds, updatedAt : {0}, content : {"a"}]}

InitGuest ==
  /\ EngineStart({NoUser}, TRUE, LeftoverQueues, {{}})
  /\ budget = MaxEvents
  /\ MergeIdle

\* A guest's calls, one after the other.
GuestCall == AllIdle /\ Call

NextGuest ==
  \/ GuestCall
  \/ \E w \in Writers :
       \/ SaveNoteWrite(w) \/ SaveNoteBranch(w)
       \/ DeleteNoteWrite(w) \/ DeleteNoteBranch(w)
       \/ SaveChatThreadWrite(w) \/ SaveChatThreadBranch(w)
  \/ \E connected \in BOOLEAN : NetInfoChange(connected)
  \/ ForcSync
  \/ ClockTick

SpecGuest == InitGuest /\ [][NextGuest]_vars

\* C7: in a guest session no call waits for the remote store, no cycle
\* runs, no step changes the pending queue or the remote store, and once
\* the calls have returned each note whose last call was saveNote is in
\* notes_guest as saved.
C7_GuestStaysLocal ==
  /\ [](\A w \in Writers : writer[w].pc # "remote")
  /\ [](Running = {})
  /\ [][UNCHANGED <<queueVars, remoteVars>>]_vars
  /\ [](AllIdle =>
          \A id \in NoteIds :
            Saved(expect["guest"][id]) =>
              WithId(localNotes["guest"], id) = {expect["guest"][id]})

\* A guest has saved two notes and a chat thread, with an operation of an
\* earlier session still pending.
C7_Witness ==
  /\ currentUser = NoUser /\ AllIdle
  /\ pendingOperations # <<>>
  /\ \A id \in NoteIds : WithId(localNotes["guest"], id) = {expect["guest"][id]}
  /\ localThreads["guest"] # <<>>

\* ------------------------------------- one cycle over two diverged stores

\* The rows of a user in the notes table: at most one per id.
RowSets(E) == {Range(c) : c \in Collections(E)}

\* A signed-in user is online; the local notes and the remote notes have
\* diverged (edits made offline, writes of other devices), and the queue
\* holds nothing or the update that an offline saveNote of a local note
\* left.  mLocal and mCloud keep the two stores as they are before the
\* cycle.
InitCycle ==
  /\ currentUser \in Users
  /\ now = MaxTime
  /\ isOnline = TRUE
  /\ isSyncing = FALSE
  /\ localNotes \in {[k \in StoreKeys |-> IF k = currentUser THEN c ELSE <<>>] :
                        c \in Collections(TimedEntities)}
  /\ localThreads = [k \in StoreKeys |-> <<>>]
  /\ localLabels = [k \in StoreKeys |-> <<>>]
  /\ pendingOperations \in
       {<<>>} \cup {<<PendingOperation("update", "notes", e)>> :
                      e \in Range(localNotes[currentUser])}
  /\ pendingChanges = Len(pendingOperations)
  /\ storedPending = pendingOperations
  /\ lastSyncTime = NoTime
  /\ storedLastSyncTime = NoTime
  /\ remoteNotes \in [Users -> RowSets(TimedEntities)]
  /\ remoteThreads = [u \in Users |-> {}]
  /\ remoteLabels = [u \in Users |-> {}]
  /\ serverIds = 0
  /\ sync = [p \in SyncProcs |-> IdleSync]
  /\ writer = [w \in Writers |-> IdleWriter]
  /\ ret = [flip |-> FALSE, value |-> FALSE]
  /\ expect = [k \in StoreKeys |-> [id \in NoteIds |-> Untouched]]
  /\ syncIntervalId = TRUE
  /\ budget = 1
  /\ mKind = "cycle"
  /\ mLocal = localNotes[currentUser]
  /\ mCloud = CloudSeq(remoteNotes[currentUser])
  /\ mOut = NoOutput

NextCycle ==
  \/ ForcSync
  \/ \E p \in SyncProcs : SyncStep(p)

SpecCycle == InitCycle /\ [][NextCycle]_vars

\* The one cycle has run to its end and syncAll has returned true.
CycleDone == Running = {} /\ ret.flip /\ ret.value

\* C11 as claimed: when the two stores hold versions of a note id with
\* different updatedAt before the cycle, then after the cycle the local
\* store holds the content of the version whose updatedAt was greater,
\* with or without a pending update for that id; and at no time has the
\* remote row of a note whose remote version was the newer one been
\* overwritten with other content.
C11_LastModifiedWinsOverCycle ==
  \A le \in Range(mLocal), ce \in Range(mCloud) :
    (mKind = "cycle" /\ le.id = ce.id /\ le.updatedAt # ce.updatedAt) =>
      LET newer == IF ce.updatedAt > le.updatedAt THEN ce ELSE le
      IN /\ CycleDone =>
              \E n \in Range(localNotes[currentUser]) :
                n.id = le.id /\ n.content = newer.content
         /\ ce.updatedAt > le.updatedAt =>
              \A r \in remoteNotes[currentUser] :
                r.id = ce.id => r.content = ce.content

\* ------------------------------------------ the claims: merge as a function

\* The merged collection of a call with its arguments exchanged.
Exchanged ==
  IF mKind = "notes" THEN MergeNotes(mCloud, mLocal).result
  ELSE MergeChatThreads(mCloud, mLocal).result

\* Every id the two collections share has two different timestamps.
StrictlyOrdered(l, c) ==
  \A le \in Range(l), ce \in Range(c) : le.id = ce.id => le.updatedAt # ce.updatedAt

NewerLocally(l, c) ==
  {le \in Range(l) : \E ce \in Range(c) : le.id = ce.id /\ le.updatedAt > ce.updatedAt}

DrainEnds(p) == sync[p].pc = "drain" /\ sync'[p].pc = "notesLocal"

\* A replay that failed with the entry still below the retry ceiling.
FailedBelowCeiling(r) ==
  r.outcome # "ok" /\ r.op.retryCount + 1 < MAX_RETRY_COUNT

\* The entry of a failed replay as the queue holds it afterwards.
Retried(r) == [r.op EXCEPT !.retryCount = @ + 1]

\* The entries a drain with these replays is claimed to leave in the queue.
Survivors(log) ==
  LET kept == SelectSeq(log, FailedBelowCeiling)
  IN [i \in 1..Len(kept) |-> Retried(kept[i])]

\* C13 as claimed: a drain removes exactly the entries whose own replay
\* succeeded or whose retry count reached the ceiling; every entry whose
\* replay failed below the ceiling is in the queue afterwards, in order,
\* with its retry count one higher, whatever happened to other entries for
\* the same entity id.
C13_DrainRemovesExactly ==
  [][\A p \in SyncProcs :
       DrainEnds(p) => pendingOperations' = Survivors(sync'[p].log)]_vars

\* C14 as claimed: an operation whose replay fails at every attempt is in
\* the queue for exactly MAX_RETRY_COUNT drains: after a failed attempt
\* that leaves it below the ceiling it is still queued, with the attempt
\* counted, and after the failed attempt that reaches the ceiling it is
\* gone.
C14_ThreeAttempts ==
  [][\A p \in SyncProcs :
       DrainEnds(p) =>
         \A i \in 1..Len(sync'[p].log) :
           LET r == sync'[p].log[i]
           IN r.outcome # "ok" =>
                IF r.op.retryCount + 1 < MAX_RETRY_COUNT
                THEN Retried(r) \in Range(pendingOperations')
                ELSE /\ Retried(r) \notin Range(pendingOperations')
                     /\ r.op \notin Range(pendingOperations')]_vars

\* C15 as claimed: the queue persisted under 'pendingOperations' equals the
\* queue in memory after every mutation of it: an enqueue, the removal
\* after a drain, and the increment of a retry count.
C15_PersistedQueueEqualsMemory == storedPending = pendingOperations

\* C17 as claimed: the queue never holds two entries of the same kind for
\* the same collection and entity id.
C17_NoDuplicateEntries ==
  \A i, j \in 1..Len(pendingOperations) :
    (/\ pendingOperations[i].type = pendingOperations[j].type
     /\ pendingOperations[i].collection = pendingOperations[j].collection
     /\ pendingOperations[i].id = pendingOperations[j].id) => i = j

\* ----------------------------------------------- a restart of the process

\* JSON.stringify writes a Date as its ISO string, and JSON.parse returns
\* that string, which is no Date: the strings are the integers from
\* FirstString on, the string of the date t being FirstString + t.
FirstString == 10

\* A value after JSON.parse(JSON.stringify(value)).
ToISOString(t) == IF t >= FirstString THEN t ELSE FirstString + t

\* An entity after JSON.parse(JSON.stringify(entity)).
Parsed(data) ==
  IF "updatedAt" \in DOMAIN data
  THEN [data EXCEPT !.updatedAt = ToISOString(@)]
  ELSE data

\* A queue after JSON.parse(JSON.stringify(queue)) and the map of
\* loadPendingOperations, which makes a Date of the timestamp of each entry
\* and leaves its data as parsed.
Stringified(q) == [i \in 1..Len(q) |-> [q[i] EXCEPT !.data = Parsed(@)]]

\* loadPendingOperations that finds nothing stored.
LoadNothing(stored) == <<>>

\* loadPendingOperations on the value stored under 'pendingOperations'.
LoadPendingOperations(stored) == Stringified(stored)

\* The process is killed and started again: the constructor and
\* initialize() run on what AsyncStorage holds, every call and cycle that
\* was running is gone, and NetInfo reports the connectivity.
Restart ==
  /\ Spend
  /\ pendingOperations' = LoadPendingOperations(storedPending)
  /\ pendingChanges' = Len(pendingOperations')
  /\ lastSyncTime' = storedLastSyncTime
  /\ isSyncing' = FALSE
  /\ isOnline' \in BOOLEAN
  /\ syncIntervalId' = (currentUser # NoUser)
  /\ sync' = [p \in SyncProcs |-> IdleSync]
  /\ writer' = [w \in Writers |-> IdleWriter]
  /\ UNCHANGED <<currentUser, now, localVars, storedPending, storedLastSyncTime,
                 remoteVars, ret, expect, mergeVars>>

\* The user is signed in, the device starts offline, and the remote store
\* may hold a note written earlier.
InitRestart ==
  /\ EngineStart(Users, FALSE, {<<>>}, EarlierNotes)
  /\ budget = MaxEvents + 1
  /\ MergeIdle

\* Edits made offline, restarts, and the triggers of a sync.
NextRestart ==
  \/ OfflineEdit
  \/ \E w \in Writers : SaveNoteWrite(w) \/ SaveNoteBranch(w)
  \/ Restart
  \/ Reconnect
  \/ ForcSync
  \/ \E p \in SyncProcs : SyncStep(p)

SpecRestart == InitRestart /\ [][NextRestart]_vars

NoDrain == \A p \in SyncProcs : sync[p].pc # "drain"

\* An entry without its retry count.
Operation(op) == [id |-> op.id, type |-> op.type, collection |-> op.collection,
                  data |-> op.data]

InitCalls ==
  /\ \E online \in BOOLEAN :
       EngineStart(Users \cup {NoUser}, online, {<<>>}, EarlierNotes)
  /\ budget = MaxEvents
  /\ MergeIdle

\* A call made when the call before it has returned.
CallAlone == AllIdle /\ Call

\* The calls of the screens, one after the other, while the connection can
\* drop at any point of a call.
NextCalls ==
  \/ CallAlone
  \/ \E w \in Writers : WriterStep(w)
  \/ NetInfoChange(FALSE)
  \/ ClockTick

SpecCalls == InitCalls /\ [][NextCalls]_vars

\* A saveNote or deleteNote call that has not returned.
NoteCall(w) == writer[w].op \in {"saveNote", "deleteNote"}

\* These local notes show the change the call of w makes for its caller.
LocalEffect(w, notes) ==
  LET coll == notes[Key(writer[w].user)]
  IN IF writer[w].op = "saveNote" THEN writer[w].arg \in Range(coll)
     ELSE writer[w].arg.id \notin Ids(coll)

\* C18: a saveNote or deleteNote call has applied its local effect before
\* it tests whether to write remotely and while it waits for the remote
\* store; when it returns the local collection shows the change, whoever
\* the user is, online or offline and whatever the remote store answered;
\* a call waits for the remote store only for an authenticated, non-guest
\* user who is online, and the remote store changes only in the step that
\* ends such a wait.
C18_LocalFirstUnconditional ==
  /\ [](\A w \in Writers :
          (NoteCall(w) /\ writer[w].pc \in {"branch", "remote"}) =>
            LocalEffect(w, localNotes))
  /\ [][\A w \in Writers :
          /\ (NoteCall(w) /\ Idle(w)') => LocalEffect(w, localNotes')
          /\ (NoteCall(w) /\ writer[w].pc # "remote" /\ writer'[w].pc = "remote") =>
               /\ writer[w].pc = "branch"
               /\ writer[w].user \in Users /\ writer[w].user # "guest"
               /\ isOnline]_vars
  /\ [][remoteVars' # remoteVars =>
          \E w \in Writers : writer[w].pc = "remote" /\ Idle(w)']_vars

\* An authenticated user online has saved n1 with the remote write
\* failing, saved n2, and deleted n1: n2 is in the local notes, n1 is not.
C18_Witness ==
  /\ currentUser \in Users /\ isOnline /\ AllIdle
  /\ Len(pendingOperations) = 1 /\ pendingOperations[1].type = "update"
  /\ pendingOperations[1].id = "n1"
  /\ Ids(localNotes[currentUser]) = {"n2"}
  /\ expect[currentUser]["n1"] = Deleted

\* --------------------------- the claims: a remote write that fails

\* A step in which the call of w returns.
Returns(w) == ~Idle(w) /\ Idle(w)'

\* The pending operation a call leaves for its entity.
Fallback(w) ==
  CASE writer[w].op = "saveNote" -> PendingOperation("update", "notes", writer[w].arg)
    [] writer[w].op = "deleteNote" -> PendingOperation("delete", "notes", writer[w].arg)
    [] OTHER -> PendingOperation("update", "chatThreads", writer[w].arg)

\* The remote store can answer the write of this call with success and
\* hold the same rows as before: a delete of a row that does not exist, an
\* update that writes what the row holds.
SuccessChangesNothing(w) ==
  CASE writer[w].op = "saveNote" ->
         /\ HasRow(remoteNotes, writer[w].arg.id)
         /\ UpdateRow(remoteNotes, writer[w].arg.id, writer[w].arg) = remoteNotes
    [] writer[w].op = "deleteNote" -> ~HasRow(remoteNotes, writer[w].arg.id)
    [] OTHER ->
         /\ HasRow(remoteThreads, writer[w].arg.id)
         /\ UpdateRow(remoteThreads, writer[w].arg.id, writer[w].arg) = remoteThreads

\* C19: every saveNote, deleteNote and saveChatThread call of an
\* authenticated user returns, having appended to the queue nothing or
\* one pending operation for its entity, and it has appended that one, and
\* persisted the queue, when it returns without having waited for the
\* remote store (offline) or when the remote store has not taken its
\* write.
C19_FailedWriteEnqueuedOnce ==
  [][\A w \in Writers :
       (Returns(w) /\ writer[w].user \in Users) =>
         LET appended ==
               /\ pendingOperations' = Append(pendingOperations, Fallback(w))
               /\ storedPending' = pendingOperations'
         IN /\ appended \/ UNCHANGED queueVars
            /\ writer[w].pc = "branch" => appended
            /\ (/\ writer[w].pc = "remote"
                /\ remoteVars' = remoteVars
                /\ ~SuccessChangesNothing(w)) => appended]_vars

\* An authenticated user has saved a chat thread online, with the remote
\* write failing, and then deleted a note while offline: the queue holds
\* the two operations.
C19_Witness ==
  /\ currentUser \in Users /\ ~isOnline /\ AllIdle
  /\ Len(pendingOperations) = 2
  /\ pendingOperations[1].collection = "chatThreads"
  /\ pendingOperations[1].type = "update"
  /\ pendingOperations[2].collection = "notes"
  /\ pendingOperations[2].type = "delete"

\* ----------------------------- the claims: a note the remote store lacks

\* C20 as claimed: when a saveNote call finds no remote row for its note
\* and the remote store creates one, the engine adopts the id of the
\* created row: when the call returns, the local note carries that id and
\* no local note carries the old one.
C20_CreatedIdAdopted ==
  [][\A w \in Writers :
       (/\ Returns(w) /\ writer[w].op = "saveNote"
        /\ ~HasRow(remoteNotes, writer[w].arg.id)
        /\ serverIds' = serverIds + 1) =>
         LET coll == localNotes'[Key(writer[w].user)]
         IN /\ ServerIdSeq[serverIds'] \in Ids(coll)
            /\ writer[w].arg.id \notin Ids(coll)]_vars

\* --------------------- offline edits, then a connection that stays

\* The answer to the replay the drain of p is waiting for is a success
\* whenever the remote store can give one: it accepts writes.
RemoteAccepts(p) ==
  (sync[p].pc = "drain" /\ Replayable(pendingOperations[sync[p].idx])) =>
    sync'[p].log[Len(sync'[p].log)].outcome = "ok"

\* Notes are saved offline, connectivity returns and stays, the remote
\* store accepts writes, and sync is requested again and again.
NextReconnected ==
  \/ OfflineEdit
  \/ \E w \in Writers : SaveNoteWrite(w) \/ SaveNoteBranch(w)
  \/ Reconnect
  \/ isOnline /\ ForcSync
  \/ \E p \in SyncProcs : SyncStep(p) /\ RemoteAccepts(p)
  \/ ClockTick

SpecReconnected == InitOffline /\ [][NextReconnected]_vars

\* C21 as claimed: a note an authenticated user saved offline reaches the
\* remote store once connectivity has returned: when a cycle has completed
\* and the queue holds nothing more to replay, the remote store holds a row
\* for every note that was saved.
C21_OfflineNoteReachesRemote ==
  (CycleCompleted /\ AllIdle /\ pendingOperations = <<>>) =>
    \A u \in Users, id \in NoteIds :
      Saved(expect[u][id]) => HasRow(remoteNotes, id)

\* ------------------------------ a remote store that denies every write

\* A signed-in user is online; the remote store may hold a note written
\* earlier.
InitDenied ==
  /\ EngineStart(Users, TRUE, {<<>>}, EarlierNotes)
  /\ budget = MaxEvents
  /\ MergeIdle

\* The row-level policy of the remote store rejects the write this step
\* has waited for (error 42501): updateNote and createNote catch the error
\* and return null; a replay is answered with failure.
RemoteDenies(p) ==
  sync[p].pc = "drain" => sync'[p].log[Len(sync'[p].log)].outcome = "fail"

\* saveNote calls one after the other and sync requests, against a remote
\* store that rejects every write.
NextDenied ==
  \/ AllIdle /\ \E note \in Edits(NoteIds) : SaveNoteCall(FreeWriter, note)
  \/ \E w \in Writers : SaveNoteWrite(w) \/ SaveNoteBranch(w)
  \/ \E w \in Writers : SaveNoteRemote(w) /\ UNCHANGED remoteVars
  \/ ForcSync
  \/ \E p \in SyncProcs : SyncStep(p) /\ RemoteDenies(p)
  \/ ClockTick

SpecDenied == InitDenied /\ [][NextDenied]_vars

\* C22 as claimed: a write the remote store rejects with a permission
\* denial is dropped: no pending operation is added for it, and so no
\* drain replays it.
C22_DeniedWriteDropped ==
  /\ pendingOperations = <<>>
  /\ \A p \in SyncProcs : sync[p].log = <<>>

\* ------------------------------------------- a local store that fails

\* updateLocalNote / removeLocalNote when the setItem of saveLocalNotes is
\* rejected: saveLocalNotes catches the error and logs it, and the call
\* goes on to its branch.
LocalWriteFails(w) ==
  /\ writer[w].pc = "write" /\ writer[w].op \in {"saveNote", "deleteNote"}
  /\ writer' = [writer EXCEPT ![w].pc = "branch", ![w].snap = <<>>]
  /\ UNCHANGED <<envVars, queueVars, localVars, remoteVars, isSyncing, lastSyncTime,
                 storedLastSyncTime, ret, expect, sync, mergeVars>>

\* The offline branch of saveNote / deleteNote when the setItem of
\* savePendingOperations is rejected: the entry is pushed,
\* savePendingOperations catches the error and logs it, and the call returns.
EnqueueUnsaved(w) ==
  /\ writer[w].pc = "branch" /\ writer[w].op \in {"saveNote", "deleteNote"}
  /\ ~WritesThrough(writer[w].user) /\ ~IsGuest(writer[w].user)
  /\ pendingOperations' =
       Append(pendingOperations,
              PendingOperation(IF writer[w].op = "saveNote" THEN "update" ELSE "delete",
                               "notes", writer[w].arg))
  /\ pendingChanges' = Len(pendingOperations')
  /\ writer' = [writer EXCEPT ![w] = IdleWriter]
  /\ UNCHANGED <<envVars, storedPending, localVars, remoteVars, isSyncing, lastSyncTime,
                 storedLastSyncTime, ret, expect, sync, mergeVars>>

\* Calls made one after the other on a device whose storage can reject a
\* write.
NextStorage ==
  \/ NextCalls
  \/ \E w \in Writers : LocalWriteFails(w)
  \/ \E w \in Writers : EnqueueUnsaved(w)

SpecStorage == InitCalls /\ [][NextStorage]_vars

\* C23 as claimed: a saveNote or deleteNote call does not go on as if it
\* had succeeded when its write to the local store failed: it passes its
\* local write only with the change persisted in the local notes, and it
\* returns with a new entry in the queue only with the queue persisted.
C23_StorageFailurePropagates ==
  /\ [][\A w \in Writers :
          (NoteCall(w) /\ writer[w].pc = "write" /\ writer'[w].pc = "branch") =>
            LocalEffect(w, localNotes')]_vars
  /\ [][\A w \in Writers :
          (Returns(w) /\ pendingOperations' # pendingOperations) =>
            storedPending' = pendingOperations']_vars

\* ------------------------------------ the claims: the steps of a cycle

\* The positions of a cycle inside syncNotes and syncChatThreads.
BeforeLabels ==
  {"notesLocal", "notesCloud", "notesEnq", "threadsLocal", "threadsCloud"}

\* C24 as claimed: a failure while notes or chat threads are synced does
\* not end the cycle: no cycle ends inside syncNotes or syncChatThreads,
\* with collections still to be read, merged and persisted.
C24_FailureDoesNotAbortCycle ==
  [][\A p \in SyncProcs :
       (Syncing(p) /\ ~Syncing(p)') => sync[p].pc \notin BeforeLabels]_vars

\* ------------------------------------------ the events of the listeners

\* The device starts offline, signed in or not.
InitEvents ==
  /\ EngineStart(Users \cup {NoUser}, FALSE, {<<>>}, EarlierNotes)
  /\ budget = MaxEvents + 1
  /\ MergeIdle

\* Edits made offline, the callbacks of the NetInfo and AppState
\* listeners, and the cycles they start.
NextEvents ==
  \/ OfflineEdit
  \/ \E w \in Writers : SaveNoteWrite(w) \/ SaveNoteBranch(w)
  \/ \E connected \in BOOLEAN : NetInfoChange(connected)
  \/ AppStateActive
  \/ \E p \in SyncProcs : SyncStep(p)

SpecEvents == InitEvents /\ [][NextEvents]_vars

\* A step in which syncAll is called once: it starts one cycle, or it
\* returns false at one of its guards.
SyncRequested ==
  \/ CycleStarts /\ Cardinality(Running') = Cardinality(Running) + 1 /\ ret' = ret
  \/ RequestRejected

\* C25: a connectivity event requests a sync, once, exactly when it is a
\* transition from offline to online; an app-became-active event while
\* online requests one; a request made while a cycle is running returns
\* false and changes nothing, and a cycle starts only in the step of the
\* event that requested it.
C25_OneRequestPerTransition ==
  /\ [][(\E connected \in BOOLEAN : NetInfoChange(connected)) =>
          (SyncRequested <=> (~isOnline /\ isOnline'))]_vars
  /\ [][AppStateActive => (isOnline /\ SyncRequested)]_vars
  /\ [][(SyncRequested /\ isSyncing) =>
          /\ RequestRejected /\ ~ret'.value
          /\ UNCHANGED <<queueVars, localVars, remoteVars, isSyncing, sync>>]_vars
  /\ [][CycleStarts => budget' = budget - 1]_vars

\* The connection has returned and started a cycle, and the app becoming
\* active while the cycle runs has been answered with false.
C25_Witness ==
  /\ isOnline /\ isSyncing /\ Cardinality(Running) = 1
  /\ ret.flip /\ ~ret.value
  /\ budget = MaxEvents - 1
  /\ \A k \in StoreKeys : \A id \in NoteIds : expect[k][id] = Untouched

\* ----------------------------------------------- the status of the engine

C27_LocalUpdatedAtMonotonic ==
  [][\A k \in StoreKeys : \A id \in NoteIds :
       (id \in Ids(localNotes[k]) /\ id \in Ids(localNotes'[k])) =>
         Lookup(localNotes'[k], id).updatedAt >= Lookup(localNotes[k], id).updatedAt]_vars

\* ------------------------------------------------ the order of a cycle

\* The awaits of syncAll in the order of its text: the await a cycle can
\* be at next, from the one it is at.
NextAwaits(pc) ==
  CASE pc = "drain"        -> {"drain", "notesLocal"}
    [] pc = "notesLocal"   -> {"notesCloud"}
    [] pc = "notesCloud"   -> {"notesEnq", "threadsLocal"}
    [] pc = "notesEnq"     -> {"notesEnq", "threadsLocal"}
    [] pc = "threadsLocal" -> {"threadsCloud"}
    [] pc = "threadsCloud" -> {"labelsLocal"}
    [] pc = "labelsLocal"  -> {"labelsCloud"}
    [] pc = "labelsCloud"  -> {"stamp"}
    [] pc = "stamp"        -> {"return"}
    [] OTHER               -> {}

\* C28: a cycle starts with the drain of a queue that is not empty and
\* reads no collection before the drain has ended; it takes notes, then
\* chat threads, then labels; lastSyncTime is set, and persisted with it,
\* only by a cycle that has passed all three; a cycle that ends before
\* that returns false and leaves lastSyncTime as it was, and syncAll
\* returns true only after the last step.
C28_FixedOrder ==
  /\ [][\A p \in SyncProcs :
          /\ (~Syncing(p) /\ Syncing(p)') =>
               sync'[p].pc = (IF pendingOperations = <<>> THEN "notesCloud" ELSE "drain")
          /\ (Syncing(p) /\ Syncing(p)' /\ sync'[p].pc # sync[p].pc) =>
               sync'[p].pc \in NextAwaits(sync[p].pc)
          /\ (Syncing(p) /\ ~Syncing(p)') =>
               /\ ret'.value <=> sync[p].pc = "return"
               /\ UNCHANGED <<lastSyncTime, storedLastSyncTime>>]_vars
  /\ [][(lastSyncTime' # lastSyncTime \/ storedLastSyncTime' # storedLastSyncTime) =>
          /\ \E p \in SyncProcs : sync[p].pc = "stamp" /\ sync'[p].pc = "return"
          /\ lastSyncTime' = now
          /\ storedLastSyncTime' = lastSyncTime']_vars

\* A cycle has drained the queue, keeping an entry whose replay failed,
\* has passed the three collections and has set lastSyncTime; it is about
\* to return true.
C28_Witness ==
  \E p \in SyncProcs :
    /\ sync[p].pc = "return"
    /\ lastSyncTime = now /\ storedLastSyncTime = now
    /\ \E i \in 1..Len(pendingOperations) : pendingOperations[i].retryCount = 1

\* ------------------------------------------------ the order of the queue

\* The entries of a queue without their retry counts.
Operations(q) == [i \in 1..Len(q) |-> Operation(q[i])]

RECURSIVE IsSubsequence(_, _)
\* Whether s is t with some of its elements left out.
IsSubsequence(s, t) ==
  IF s = <<>> THEN TRUE
  ELSE IF t = <<>> THEN FALSE
  ELSE IF Head(s) = Head(t) THEN IsSubsequence(Tail(s), Tail(t))
  ELSE IsSubsequence(s, Tail(t))

\* C29: a step that makes the queue longer leaves the entries it held as
\* they were, at their positions, and puts the new ones after them with
\* retryCount 0; any other step leaves the remaining operations in the order
\* they had; and each step of a drain replays the entry that follows the
\* one it replayed last, so operations, those on one entity id among them,
\* are replayed in the order in which they were enqueued.
C29_QueueIsFifo ==
  /\ [][IF Len(pendingOperations') > Len(pendingOperations)
        THEN /\ SubSeq(pendingOperations', 1, Len(pendingOperations)) = pendingOperations
             /\ \A i \in (Len(pendingOperations) + 1)..Len(pendingOperations') :
                  pendingOperations'[i].retryCount = 0
        ELSE IsSubsequence(Operations(pendingOperations'),
                           Operations(pendingOperations))]_vars
  /\ [][\A p \in SyncProcs :
          (sync[p].pc = "drain" /\ sync'[p] # sync[p]) =>
            LET n == Len(sync[p].log)
            IN /\ Len(sync'[p].log) = n + 1
               /\ SubSeq(sync'[p].log, 1, n) = sync[p].log
               /\ sync'[p].log[n + 1].op = pendingOperations[n + 1]]_vars

\* A drain has replayed the first of two updates of one note, enqueued
\* one after the other while offline, and has the second one next.
C29_Witness ==
  \E p \in SyncProcs :
    /\ sync[p].pc = "drain" /\ sync[p].idx = 2
    /\ Len(sync[p].log) = 1
    /\ Len(pendingOperations) = 2
    /\ Operation(sync[p].log[1].op) = Operation(pendingOperations[1])
    /\ pendingOperations[1].id = pendingOperations[2].id
    /\ pendingOperations[1].data.content = "a"
    /\ pendingOperations[2].data.content = "c"

\* ------------------------------------------- the frame of a local save

\* A first start offline, as a guest or signed in.
InitSaves ==
  /\ EngineStart(Users \cup {NoUser}, FALSE, {<<>>}, {{}})
  /\ budget = MaxEvents + 3
  /\ MergeIdle

\* Notes saved one after the other while the user signs in and out.
NextSaves ==
  \/ OfflineEdit
  \/ \E w \in Writers : SaveNoteWrite(w) \/ SaveNoteBranch(w)
  \/ AllIdle /\ \E u \in Users : Login(u)
  \/ AllIdle /\ Logout
  \/ ClockTick

SpecSaves == InitSaves /\ [][NextSaves]_vars

\* C30: the local write of saveNote puts the note at the place of the note
\* of its id, leaving the length of the collection and every other note
\* at its position as it was, or, when the collection has no note of this
\* id, at the front of the collection, which grows by one; the collections
\* under the other keys stay as they were.
C30_SaveFrame ==
  [][\A w \in Writers :
       (writer[w].op = "saveNote" /\ writer[w].pc = "write" /\ writer'[w].pc = "branch") =>
         LET k == Key(writer[w].user)
             e == writer[w].arg
             old == localNotes[k]
             new == localNotes'[k]
         IN /\ IF e.id \in Ids(old)
               THEN /\ Len(new) = Len(old)
                    /\ \A i \in 1..Len(old) :
                         new[i] = (IF old[i].id = e.id THEN e ELSE old[i])
               ELSE /\ Len(new) = Len(old) + 1
                    /\ new[1] = e
                    /\ \A i \in 1..Len(old) : new[i + 1] = old[i]
            /\ \A j \in StoreKeys \ {k} : localNotes'[j] = localNotes[j]]_vars

\* A note saved at the front of a collection of one note, and later saved
\* again, stands behind the other note with its later time, while the
\* collection under another key holds a note.
C30_Witness ==
  /\ AllIdle
  /\ \E k \in StoreKeys :
       /\ Len(localNotes[k]) = 2
       /\ localNotes[k][1].id = "n2" /\ localNotes[k][2].id = "n1"
       /\ localNotes[k][2].updatedAt > localNotes[k][1].updatedAt
       /\ \E j \in StoreKeys \ {k} : localNotes[j] # <<>>

\* ------------------------------------------- the order of a merge result

\* C31: the collection a merge returns is sorted, notes and chat threads
\* by updatedAt descending and labels by name ascending, whatever the
\* order of the local collection.
C31_MergeResultSorted ==
  Merged =>
    IF mKind = "labels" THEN IsSortedByName(mOut.result)
    ELSE IsSortedByUpdatedAtDesc(mOut.result)

\* A merge of notes whose local collection had the older note first: the
\* result has the newer one first.
C31_Witness ==
  /\ Merged /\ mKind = "notes"
  /\ Len(mLocal) = 2 /\ mCloud = <<>>
  /\ mLocal[1].updatedAt < mLocal[2].updatedAt
  /\ mOut.result = <<mLocal[2], mLocal[1]>>

\* ------------------------------------- the retry count after a drain

\* The queue two failed drains have left in storage: updates of notes the
\* remote store has no row for, each tried twice.
TriedTwice ==
  {<<>>} \cup
  {<<[PendingOperation("update", "notes", e1) EXCEPT !.retryCount = 2],
     [PendingOperation("update", "notes", e2) EXCEPT !.retryCount = 2]>> :
     e1 \in [id : {"n1"}, updatedAt : {0}, content : {"a"}],
     e2 \in [id : {"n2"}, updatedAt : {0}, content : {"a"}]}

\* A signed-in user is online with that queue.
InitCrash ==
  /\ EngineStart(Users, TRUE, TriedTwice, {{}})
  /\ budget = MaxEvents
  /\ MergeIdle

\* The step of a cycle is none in which something raises: a replay is
\* answered with success or with failure (the methods of databaseService
\* catch their errors), and a cycle ends by returning true.
NothingRaises(p) ==
  /\ sync[p].pc = "drain" => sync'[p].log[Len(sync'[p].log)].outcome # "raise"
  /\ (Syncing(p) /\ ~Syncing(p)') => sync[p].pc = "return"

\* Sync requests, saveNote calls that can overlap a cycle, and the
\* process being killed and started again.
NextCrash ==
  \/ ForcSync
  \/ \E p \in SyncProcs : SyncStep(p) /\ NothingRaises(p)
  \/ \E note \in Edits(NoteIds) : SaveNoteCall(FreeWriter, note)
  \/ \E w \in Writers : SaveNoteWrite(w) \/ SaveNoteBranch(w) \/ SaveNoteRemote(w)
  \/ Restart

SpecCrash == InitCrash /\ [][NextCrash]_vars

\* C32 as claimed: whenever no drain is in progress every entry of the
\* queue has a retryCount below MAX_RETRY_COUNT.
C32_RetryCountBelowCeiling ==
  NoDrain =>
    \A i \in 1..Len(pendingOperations) :
      pendingOperations[i].retryCount < MAX_RETRY_COUNT

\* ------------------------------------- calls and cycles in turn

\* Calls and cycles one after the other: a call is made when no call and
\* no cycle is running, a sync is requested when no call is running, and
\* nothing raises.
NextInTurn ==
  \/ AllIdle /\ ~isSyncing /\ \E id \in NoteIds : DeleteNoteCall(FreeWriter, id)
  \/ \E w \in Writers : DeleteNoteWrite(w) \/ DeleteNoteBranch(w) \/ DeleteNoteRemote(w)
  \/ AllIdle /\ ~isSyncing /\ \E note \in Edits(NoteIds) : SaveNoteCall(FreeWriter, note)
  \/ \E w \in Writers : SaveNoteWrite(w) \/ SaveNoteBranch(w) \/ SaveNoteRemote(w)
  \/ AllIdle /\ ForcSync
  \/ \E p \in SyncProcs : SyncStep(p) /\ NothingRaises(p)

SpecInTurn == InitDenied /\ [][NextInTurn]_vars

\* C33 as claimed: once a deleteNote call has returned, the id of the note
\* is absent from the local notes of its user, during and after every
\* later cycle and whatever the remote store answered to the delete, until
\* the note is saved again.
C33_DeletedStaysDeleted ==
  AllIdle =>
    \A k \in StoreKeys : \A id \in NoteIds :
      expect[k][id] = Deleted => id \notin Ids(localNotes[k])

\* One note of this user has been saved, by one call whose remote write
\* created the only row of the user, under the first id of the store.
SavedOnceCreated(u) ==
  /\ AllIdle /\ pendingOperations = <<>>
  /\ Cardinality({id \in NoteIds : Saved(expect[u][id])}) = 1
  /\ \A id \in NoteIds : expect[u][id] # Deleted
  /\ serverIds = 1
  /\ {r.id : r \in remoteNotes[u]} = {ServerIdSeq[1]}

\* C34 as claimed: when a new note has been saved once online, the remote
\* store creating its row under an id of its own, and a cycle then runs to
\* its end, the local collection holds one entry for the note.
C34_NoDuplicateAfterCycle ==
  \A p \in SyncProcs :
    (sync[p].pc = "return" /\ sync[p].user \in Users /\ SavedOnceCreated(sync[p].user)) =>
      Len(localNotes[sync[p].user]) = 1

\* ------------------------------------------- the ids of a merge result

\* The ids of the result of a merge are those of its two arguments, each
\* once.
UnionOfIds ==
  Merged =>
    /\ Ids(mOut.result) = Ids(mLocal) \cup Ids(mCloud)
    /\ Len(mOut.result) = Cardinality(Ids(mOut.result))

\* A step of a running cycle while no deleteNote call is in progress.
CycleStepWithoutDelete ==
  /\ \E p \in SyncProcs : Syncing(p) /\ sync'[p] # sync[p]
  /\ \A w \in Writers : writer[w].op # "deleteNote"

\* C35 as claimed: the ids of a merge result are the union of the local
\* and the remote ids, each appearing once, and so no step of a cycle that
\* runs without a concurrent delete takes an entity out of a local
\* collection.
C35_CycleRemovesNothing ==
  /\ []UnionOfIds
  /\ [][CycleStepWithoutDelete =>
          \A k \in StoreKeys :
            /\ Ids(localNotes[k]) \subseteq Ids(localNotes'[k])
            /\ Ids(localThreads[k]) \subseteq Ids(localThreads'[k])
            /\ Ids(localLabels[k]) \subseteq Ids(localLabels'[k])]_vars

\* --------------------------------------------- a second account

\* Another account of the identity provider.  The model keeps no tables
\* and no local collections for it: it is followed only through the drain
\* of a cycle, which reads none.
OtherAccount == "u2"

\* u1 is signed in and the device starts offline.
InitAccounts ==
  /\ EngineStart(Users, FALSE, {<<>>}, EarlierNotes)
  /\ budget = MaxEvents + 2
  /\ MergeIdle

\* u1 saves notes offline and signs out, the other account signs in on
\* the same device, the process may be started again, connectivity returns
\* while the queue holds operations, and the cycle the listener starts is
\* followed through its drain.
NextAccounts ==
  \/ currentUser \in Users /\ OfflineEdit
  \/ \E w \in Writers : SaveNoteWrite(w) \/ SaveNoteBranch(w)
  \/ AllIdle /\ Logout
  \/ AllIdle /\ Login(OtherAccount)
  \/ AllIdle /\ Restart
  \/ pendingOperations # <<>> /\ Reconnect
  \/ \E p \in SyncProcs : sync[p].pc = "drain" /\ SyncDrain(p) /\ NothingRaises(p)

SpecAccounts == InitAccounts /\ [][NextAccounts]_vars

\* C36 as claimed: an operation enqueued while one user was the current
\* user is never replayed while another user is the current user.  In
\* SpecAccounts every operation is enqueued by u1.
C36_ReplayedForItsUser ==
  [][\A p \in SyncProcs :
       Len(sync'[p].log) > Len(sync[p].log) => currentUser # OtherAccount]_vars

\* --------------------------------------- calls made during initialize

\* The process is killed and started again, and initialize() has come as
\* far as the user AuthService.initialize restores: the fields have their
\* initial values, the listeners are installed, NetInfo reports the
\* connectivity, and loadPendingOperations has not run yet.  mLocal keeps
\* the queue that was in storage at this point.
Relaunch ==
  /\ Spend
  /\ mKind = "none" /\ currentUser \in Users
  /\ pendingOperations' = <<>>
  /\ pendingChanges' = 0
  /\ lastSyncTime' = NoTime
  /\ isSyncing' = FALSE
  /\ isOnline' \in BOOLEAN
  /\ syncIntervalId' = FALSE
  /\ sync' = [p \in SyncProcs |-> IdleSync]
  /\ writer' = [w \in Writers |-> IdleWriter]
  /\ mKind' = "starting" /\ mLocal' = storedPending
  /\ UNCHANGED <<currentUser, now, localVars, storedPending, storedLastSyncTime,
                 remoteVars, ret, expect, mCloud, mOut>>

\* initialize() from loadPendingOperations to its end: the queue and the
\* time of the last sync are those in storage, and the timer is started.
InitializeLoads ==
  /\ mKind = "starting"
  /\ pendingOperations' = LoadPendingOperations(storedPending)
  /\ pendingChanges' = Len(pendingOperations')
  /\ lastSyncTime' = storedLastSyncTime
  /\ syncIntervalId' = (currentUser # NoUser)
  /\ mKind' = "none" /\ mLocal' = <<>>
  /\ UNCHANGED <<currentUser, now, isOnline, isSyncing, localVars, storedPending,
                 storedLastSyncTime, remoteVars, ret, expect, sync, writer, budget,
                 mCloud, mOut>>

\* Notes saved offline, the process started again, and saveNote calls and
\* connectivity events that arrive before or after initialize() has loaded
\* the queue.
NextStartup ==
  \/ OfflineEdit
  \/ \E w \in Writers : SaveNoteWrite(w) \/ SaveNoteBranch(w)
  \/ Relaunch
  \/ InitializeLoads
  \/ \E connected \in BOOLEAN : NetInfoChange(connected)
  \/ \E p \in SyncProcs : SyncStep(p) /\ NothingRaises(p)

\* A signed-in user whose device starts offline.
InitStartup == InitEvents /\ currentUser \in Users

SpecStartup == InitStartup /\ [][NextStartup]_vars

\* C37 as claimed: while initialize() has not loaded the queue yet, every
\* operation that was in storage when the process started is still in
\* storage, whatever saveNote calls and listener-triggered cycles run in
\* between.
C37_StartupKeepsStoredQueue ==
  mKind = "starting" =>
    IsSubsequence(Operations(mLocal), Operations(storedPending))

\* ------------------------------------------- the timer, again and again

\* The setInterval callback of startPeriodicSync, each time it fires:
\* not one of the counted events.
TimerFires ==
  /\ syncIntervalId
  /\ isOnline /\ ~isSyncing
  /\ SyncAll(isOnline)
  /\ UNCHANGED <<isOnline, syncIntervalId, mergeVars, budget>>

\* Notes are saved offline; connectivity returns and stays; from then on
\* no call is made, the timer fires every 30 seconds and nothing raises.
NextTimer ==
  \/ OfflineEdit
  \/ \E w \in Writers : SaveNoteWrite(w) \/ SaveNoteBranch(w)
  \/ Reconnect
  \/ TimerFires
  \/ \E p \in SyncProcs : SyncStep(p) /\ NothingRaises(p)

\* The timer goes on firing, and every I/O request a cycle awaits is
\* answered.
SpecTimer ==
  /\ InitRestart /\ [][NextTimer]_vars
  /\ WF_vars(TimerFires)
  /\ WF_vars(\E p \in SyncProcs : SyncStep(p) /\ NothingRaises(p))
  /\ WF_vars(Reconnect)

\* C38 as claimed: once the device stays online with the user signed in,
\* no new edits arrive and the timer goes on firing, the queue becomes
\* empty and stays empty,
\* and it never holds more entries than the edits made and the retries
\* allowed.
C38_QueueDrainsForGood ==
  /\ <>[](isOnline /\ currentUser \in Users) => <>[](pendingOperations = <<>>)
  /\ [](Len(pendingOperations) <= MaxEvents + 1 + MAX_RETRY_COUNT)

====
